---- MODULE Spec2Model ----
(***************************************************************************)
(* Model of the dss-reflux causal engine:                                  *)
(*   - the Strategist (src/anon-hash/index.js) with its JAM store,         *)
(*   - the two reflex workers: the amplifier (src/anon-hash/substrate.js)  *)
(*     and the mirror (src/anon-hash/genesis-jam.json, mirror.js part),    *)
(*   - the gist bridge (src/unnamed/part_001).                             *)
(*                                                                         *)
(* index.js and substrate.js do not balance their braces around the retry  *)
(* loop of detectAndEmit / handleSignal.  The model reads them the way the *)
(* amplifier spells it out (substrate.js:1359-1378): the inner try/catch   *)
(* is closed, `break; // Success` follows it inside the outer try, the     *)
(* outer catch is the retry arm, and the lock is released after the loop.  *)
(***************************************************************************)
EXTENDS Integers, Sequences, FiniteSets, TLC

VARIABLES
    \* ---- JAM store (a directory shared by the processes) ----
    store,              \* hash -> stored JAM (jams/<hash>.json)
    mtime,              \* hash -> modification time of the file
    writeClock,         \* filesystem clock: time of the latest write
    firstStored,        \* hash -> the content the first write under it stored
    lastWritten,        \* the hash of the latest write, null before the first
    \* ---- Strategist process (index.js) ----
    lastHash,           \* index.js:170
    isEmitting,         \* index.js:171
    metrics,            \* index.js:174-182
    lastEmissionTime,   \* index.js:247
    missedEmissions,    \* index.js:248
    bsvEcho,            \* process.env.ENABLE_BSV_ECHO && BSV_PRIVATE_KEY
    pc,                 \* position of the in-flight detectAndEmit invocation
    retryCount,         \* analyzeAndGenerateJam(retryCount)
    cur,                \* {jam, hash} of the in-flight cycle
    calls,              \* number of detectAndEmit invocations so far
    throws,             \* number of exceptions analyzeAndGenerateJam caught so far
    restarts,           \* number of process restarts so far
    lastReturn,         \* how the most recent invocation of detectAndEmit ended
    vaultCalls,         \* number of vault.emitSignal / emitRecursiveSignal calls
    lastVaultCall,      \* the most recent of them
    built,              \* the record analyzeAndGenerateJam built last
    oracle,             \* what the latest attempt of the analysis came to
    submitted,          \* hashes whose submission was confirmed, in order
    \* ---- reflex workers ----
    events,             \* SignalRegistered deliveries to either worker so far
    \* amplifier process (substrate.js)
    isAmplifying,       \* substrate.js:289
    ampPc,              \* position of the in-flight handleSignal
    ampHash,            \* its signal hash
    ampJam,             \* its jamData (substrate.js:775)
    ampLast,            \* how the most recent handleSignal invocation ended
    ampTxs,             \* hash -> state-changing transactions the amplifier sent
    ampSwaps,           \* hash -> handler runs that sent the bait swap
    ampCaptures,        \* hash -> handler runs whose capture bundle was included
    ampRun,             \* the handler in flight: the DEX of the cascade it is at,
                        \* the bait transactions it has sent, and whether the gas
                        \* price it read (substrate.js:769) is above MAX_GAS_PRICE
    \* mirror process (mirror.js)
    mirroredSignals,    \* genesis-jam.json:121
    mirHandlers,        \* the processSignalEvent invocations: id -> [hash, pc]
    mirTxs,             \* hash -> state-changing transactions the mirror sent
    mirActs,            \* hash -> completed mirror actions (swap or deposit)
    mirLast,            \* how the most recent processSignalEvent to end ended
    \* ---- gist bridge (part_001) ----
    gNow,               \* Date.now(), in milliseconds
    isUpdating,         \* part_001:24
    lastUpdateTime,     \* part_001:26
    gistPc,             \* position of the in-flight updateGist
    gistI,              \* the retry loop's i (part_001:89)
    gistWake,           \* when the sleep(RETRY_DELAY) of the in-flight call ends
    gistCalls,          \* invocations of updateGist so far
    gistFirst,          \* Date.now() at the first invocation
    gistSpread,         \* TRUE while every invocation started less than
                        \* MIN_UPDATE_INTERVAL after the first
    gistSkipped,        \* TRUE once an invocation found no valid latest-jam.json
    patches,            \* PATCH requests sent to the gist API so far
    \* ---- functions applied to drawn arguments ----
    fnIn,               \* the arguments
    fnOut,              \* what the function returned for them, null before
    \* ---- the Strategist's timer chain (index.js:660-682, 770) ----
    sched,              \* BASE_INTERVAL, the pending timer and the cycles it started
    \* ---- the gist updater's file watcher (part_001:144-172) ----
    debounce,           \* the clock, the debounce timer and the change queue
    \* ---- the anchor client (part_000:209-331) ----
    echo,               \* the call in progress and its retry counters
    \* ---- a reflex worker's polling loop (substrate.js:621-661) ----
    poller,             \* the chain head, lastProcessedBlock and the polls in flight
    \* ---- the SignalVault contract (part_002) ----
    ledger              \* the yield the contract has logged, holds and paid out

storeVars == <<store, mtime, writeClock, firstStored, lastWritten>>
stratVars == <<lastHash, isEmitting, metrics, lastEmissionTime, missedEmissions,
               bsvEcho, pc, retryCount, cur, calls, throws, restarts, lastReturn,
               vaultCalls, lastVaultCall, built, oracle, submitted>>
ampVars == <<isAmplifying, ampPc, ampHash, ampJam, ampLast, ampTxs, ampSwaps, ampCaptures,
            ampRun>>
mirVars == <<mirroredSignals, mirHandlers, mirTxs, mirActs, mirLast>>
workerVars == <<events, ampVars, mirVars>>
bridgeVars == <<gNow, isUpdating, lastUpdateTime, gistPc, gistI, gistWake, gistCalls,
                gistFirst, gistSpread, gistSkipped, patches>>
fnVars == <<fnIn, fnOut>>
schedVars == <<sched>>
auxVars == <<debounce, echo, poller, ledger>>
vars == <<storeVars, stratVars, workerVars, bridgeVars, fnVars, schedVars, auxVars>>

----------------------------------------------------------------------------
\* Bounds of the model
MaxCalls == 3           \* invocations of detectAndEmit per behaviour
MaxRestarts == 1        \* restarts of the Strategist process
MaxThrows == 4          \* exceptions thrown inside analyzeAndGenerateJam
MaxEvents == 2          \* SignalRegistered deliveries to the reflex workers
MaxGistCalls == 3       \* invocations of updateGist
MaxTicks == 22          \* steps of RETRY_DELAY the bridge's clock advances
MaxWrites == 3          \* writes to the jams directory by the store's callers
MaxTimestamp == 2       \* range of the wall clock the store's callers stamp
MaxMissed == 1          \* skipped cycles counted when the emit decision is taken
MaxUse == 2             \* cycles a pattern handed to selectOptimalPattern was last used in
MaxCycles == 2          \* scheduled cycles counted on the timer chain
MaxWatchTicks == 16     \* steps of 30 s the watcher's clock advances
MaxEchoCalls == 2       \* calls of emitEcho
MaxBlocks == 3          \* blocks the chain grows by while a worker polls
MaxPolls == 3           \* callbacks of the polling interval

\* Program constants
MAX_RETRIES == 3        \* index.js:302
MAX_RETRIES_GIST == 2   \* part_001:12 (MAX_RETRIES of the gist updater)
RETRY_DELAY == 30000    \* part_001:13
MIN_UPDATE_INTERVAL == 600000  \* part_001:14
BASE_EMISSION_INTERVAL == 900000  \* index.js:257
DEFAULT_BASE_INTERVAL == 300000   \* index.js:660
MAX_OPTIMAL_INTERVAL == 1800000   \* index.js:656
MAX_JITTER == 60000               \* index.js:652
MINUTE == 60000                   \* index.js:653
DAY_MINUTES == 1440               \* index.js:642
DEBOUNCE_DELAY == 120000          \* part_001:11
SYNC_INTERVAL == 30000            \* index.js:807
QUEUE_WINDOW == 3600000           \* part_001:158
QUEUE_LIMIT == 10                 \* part_001:161
MAX_429_RETRIES == 5              \* part_000:229, 316
ECHO_RETRIES == 3                 \* part_000:266
MAX_BACKOFF == 30000              \* part_000:227, 314
BACKOFF_STEP == 5000              \* part_000:227, 314

null == <<>>            \* JavaScript null
ZeroHash == <<0>>       \* ethers.ZeroHash
NoCycle == [jam |-> null, hash |-> null]

----------------------------------------------------------------------------
\* JAMStore (index.js:13-73)

\* a store that drops what it is given
StoreWriteMutant(st, hash, jamData) == st

\* store(hash, jamData): writeFileSync overwrites jams/<hash>.json
StoreWrite(st, hash, jamData) ==
    [h \in (DOMAIN st) \cup {hash} |-> IF h = hash THEN jamData ELSE st[h]]

MtimeWrite(mt, hash, t) ==
    [h \in (DOMAIN mt) \cup {hash} |-> IF h = hash THEN t ELSE mt[h]]

\* what a write under hash leaves of the memory of first writes
FirstWrite(first, hash, jamData) ==
    IF hash \in DOMAIN first THEN first ELSE StoreWrite(first, hash, jamData)

\* retrieve(hash): the parsed file, or null when it does not exist
Retrieve(st, hash) == IF hash \in DOMAIN st THEN st[hash] ELSE null

\* getLatest(): the file with the greatest mtime, or null on an empty store
GetLatestMutant(st, mt) ==
    IF DOMAIN st = {} THEN null
    ELSE LET h == CHOOSE x \in DOMAIN st :
                      \A y \in DOMAIN st : st[y].meta.timestamp <= st[x].meta.timestamp
         IN  [hash |-> h, data |-> st[h]]
GetLatest(st, mt) ==
    IF DOMAIN st = {} THEN null
    ELSE LET h == CHOOSE x \in DOMAIN st : \A y \in DOMAIN st : mt[y] <= mt[x]
         IN  [hash |-> h, data |-> st[h]]

----------------------------------------------------------------------------
\* analyzeAndGenerateJam (index.js:301-428)

\* keccak256 of the serialized JAM: injective on the content
Keccak256(jam) == <<1, jam>>

\* generateVectorClock(parentHash) (index.js:751-768)
GenerateVectorClock(st, parentHash) ==
    LET parentJam == IF parentHash # null THEN Retrieve(st, parentHash) ELSE null
        clock == IF parentJam # null THEN parentJam.recursiveTopology.vectorClock
                 ELSE [eth |-> 0, bsv |-> 0]
    IN  [clock EXCEPT !.eth = @ + 1]

\* cascadeDepth: lastHash ? (retrieve(lastHash)?.cascadeDepth || 0) + 1 : 1
\* (index.js:401)
CascadeDepthMutant(st, parentHash) == 1
CascadeDepth(st, parentHash) ==
    IF parentHash # null
    THEN (IF Retrieve(st, parentHash) # null
          THEN Retrieve(st, parentHash).cascadeDepth ELSE 0) + 1
    ELSE 1

\* PROVERB_PATTERNS[p].steps (index.js:191-224)
PROVERB_PATTERNS ==
    [ CLASSIC_ARBITRAGE |->
        << [from |-> "WETH", to |-> "USDC", action |-> "SWAP", actor |-> "AMPLIFIER"],
           [from |-> "USDC", to |-> "WETH", action |-> "SWAP", actor |-> "MIRROR"] >>,
      STABLE_ROTATION |->
        << [from |-> "USDC", to |-> "DAI", action |-> "SWAP", actor |-> "AMPLIFIER"],
           [from |-> "DAI", to |-> "USDC", action |-> "SWAP", actor |-> "MIRROR"] >>,
      YIELD_CAPTURE |->
        << [from |-> "WETH", to |-> "USDC", action |-> "SWAP", actor |-> "AMPLIFIER"],
           [from |-> "USDC", to |-> "aUSDC", action |-> "DEPOSIT", actor |-> "MIRROR"] >>,
      LIQUIDITY_PROBE |->
        << [from |-> "WETH", to |-> "DAI", action |-> "SWAP", actor |-> "AMPLIFIER"],
           [from |-> "DAI", to |-> "USDC", action |-> "SWAP", actor |-> "MIRROR"] >> ]

PatternNames == DOMAIN PROVERB_PATTERNS

\* Object.entries(metrics.patternSuccess) lists the patterns in the order
\* index.js:227-229 inserted them
PatternOrder ==
    << "CLASSIC_ARBITRAGE", "STABLE_ROTATION", "YIELD_CAPTURE", "LIQUIDITY_PROBE" >>

\* the score of selectOptimalPattern (index.js:600-609), in sixtieths:
\* the success rate (0.5 for an unused pattern), minus COOLDOWN_PENALTY 0.3
\* while the pattern was used less than COOLDOWN ago, plus EXPLORATION_BONUS
\* 0.2 below 5 attempts.  cooledBefore says how far back the cooldown
\* reaches: a pattern last used after cycle cooledBefore is still cooling.
PatternScore(stats, cooledBefore) ==
    (IF stats.attempts > 0 THEN (60 * stats.successes) \div stats.attempts ELSE 30)
    - (IF stats.lastUsed > cooledBefore THEN 18 ELSE 0)
    + (IF stats.attempts < 5 THEN 12 ELSE 0)

\* the { pattern, score } entries the map of index.js:600-611 produces, in
\* the order of Object.entries
PatternScores(patternSuccess, cooledBefore) ==
    [ i \in DOMAIN PatternOrder |->
        [ pattern |-> PatternOrder[i],
          score |-> PatternScore(patternSuccess[PatternOrder[i]], cooledBefore) ] ]

\* one entry put into a list already sorted by descending score, behind the
\* entries that score the same: Array.prototype.sort is stable
RECURSIVE InsertByScore(_, _)
InsertByScore(entry, sorted) ==
    IF sorted = <<>> THEN << entry >>
    ELSE IF entry.score > Head(sorted).score THEN << entry >> \o sorted
    ELSE << Head(sorted) >> \o InsertByScore(entry, Tail(sorted))

\* .sort((a, b) => b.score - a.score) (index.js:611)
RECURSIVE SortByScore(_)
SortByScore(entries) ==
    IF entries = <<>> THEN <<>>
    ELSE InsertByScore(entries[Len(entries)],
                       SortByScore(SubSeq(entries, 1, Len(entries) - 1)))

\* a sort that puts a later entry before the earlier ones of the same score
SelectOptimalPatternMutant(patternSuccess, cooledBefore) ==
    LET entries == PatternScores(patternSuccess, cooledBefore)
        best == CHOOSE i \in DOMAIN entries :
                    \A j \in DOMAIN entries :
                        entries[j].score < entries[i].score
                        \/ (entries[j].score = entries[i].score /\ j <= i)
    IN  entries[best].pattern

\* selectOptimalPattern (index.js:595-614): the first pattern of the list
\* sorted by descending score
SelectOptimalPattern(patternSuccess, cooledBefore) ==
    SortByScore(PatternScores(patternSuccess, cooledBefore))[1].pattern

\* the JAM literal (index.js:366-403), without the fields that only feed the
\* scoring (resonance, tags, timing metadata).  meta.timestamp and meta.nonce
\* make the content of two cycles differ: they are read here as the number of
\* the cycle.  The hook each step gets from analysis.bait_hooks (index.js:335)
\* is left out.
BuildJam(st, parentHash, ts, selectedPattern) ==
    [ proverb |-> PROVERB_PATTERNS[selectedPattern],
      meta |-> [ timestamp |-> ts,
                 parentJam |-> parentHash,
                 audit_pass |-> TRUE,
                 pattern_type |-> selectedPattern ],
      recursiveTopology |-> [ eth |-> 1, bsv |-> 0,
                              vectorClock |-> GenerateVectorClock(st, parentHash) ],
      cascadeDepth |-> CascadeDepth(st, parentHash) ]

\* What one attempt meets: analyzeContract throws ("analyze"), or answers
\* {audit_pass, bait_hooks present} and the rest of the try block runs through
\* ("no") or throws after the audit passed ("build").
AnalysisOutcomes ==
    { [threw |-> "analyze", audit_pass |-> FALSE, bait_hooks |-> FALSE] }
    \cup [threw : {"no"}, audit_pass : BOOLEAN, bait_hooks : BOOLEAN]
    \cup { [threw |-> "build", audit_pass |-> TRUE, bait_hooks |-> TRUE] }

\* if (!analysis.audit_pass), index.js:311
AuditFailedMutant(analysis) == FALSE
AuditFailed(analysis) == ~analysis.audit_pass

\* if (!analysis.bait_hooks || !Array.isArray(analysis.bait_hooks)), index.js:319
HooksMissing(analysis) == ~analysis.bait_hooks

\* the catch arm (index.js:413-427): retry while retryCount < MAX_RETRIES
MayRetry(rc) == rc < MAX_RETRIES

----------------------------------------------------------------------------
\* detectAndEmit (index.js:433-590)

\* the busy guard, index.js:437
BusyMutant == FALSE
Busy == isEmitting

\* entry point selection, index.js:530-534
EmitEntryMutant(lh) == "emitRecursiveSignal"
EmitEntry(lh) ==
    IF lh = null \/ lh = ZeroHash THEN "emitSignal" ELSE "emitRecursiveSignal"

VaultCall(hash, lh) ==
    [ fn |-> EmitEntry(lh), hash |-> hash,
      parent |-> IF EmitEntry(lh) = "emitSignal" THEN null ELSE lh ]

\* metrics (index.js:174-182) and the pattern statistics (index.js:227-229)
ZeroMetrics ==
    [ totalAnalyses |-> 0, auditPasses |-> 0, auditFails |-> 0,
      emissionSuccesses |-> 0, emissionFailures |-> 0,
      patternSuccess |->
          [p \in PatternNames |-> [attempts |-> 0, successes |-> 0, lastUsed |-> 0]] ]

\* An invocation that finds the flag set returns at index.js:437.
DetectAndEmitBusy ==
    /\ calls < MaxCalls
    /\ Busy
    /\ calls' = calls + 1
    /\ lastReturn' = "busy"
    /\ UNCHANGED <<storeVars, lastHash, isEmitting, metrics, lastEmissionTime,
                   missedEmissions, bsvEcho, pc, retryCount, cur, throws,
                   restarts, vaultCalls, lastVaultCall, built, oracle, submitted>>
    /\ UNCHANGED <<workerVars, bridgeVars, fnVars, schedVars, auxVars>>

\* The synchronous head of an invocation, index.js:439-503: the timing and
\* consensus checks.  The wall clock and Math.random() are inputs.
\* the timing and consensus checks of detectAndEmit (index.js:441-495):
\* which way the cycle goes, given what the clock and Math.random() gave
EmitDecision(emittedBefore, isSubInterval, withinInterval, isAligned, randomEmit) ==
    IF ~isSubInterval /\ emittedBefore /\ withinInterval
        THEN "timing_skip"          \* index.js:457-469
    ELSE IF ~isAligned /\ ~(randomEmit \/ isSubInterval)
        THEN "consensus_skip"       \* index.js:485-492
    ELSE "emit"

DetectAndEmitEntry ==
    /\ calls < MaxCalls
    /\ ~Busy
    /\ calls' = calls + 1
    /\ \E isSubInterval \in BOOLEAN, withinInterval \in BOOLEAN,
          isAligned \in BOOLEAN, randomEmit \in BOOLEAN :
         LET decision == EmitDecision(lastEmissionTime > 0, isSubInterval,
                                      withinInterval, isAligned, randomEmit)
         IN
         IF decision = "timing_skip"
         THEN \* index.js:457-469
              /\ missedEmissions' = missedEmissions + 1
              /\ isEmitting' = FALSE
              /\ lastReturn' = "timing_skip"
              /\ UNCHANGED <<pc, retryCount>>
         ELSE IF decision = "consensus_skip"
         THEN \* index.js:488-492
              /\ isEmitting' = FALSE
              /\ lastReturn' = "consensus_skip"
              /\ UNCHANGED <<missedEmissions, pc, retryCount>>
         ELSE \* index.js:502-505 (flag set at 503): the cycle goes on to the analysis
              /\ isEmitting' = TRUE
              /\ pc' = "analyzing"
              /\ retryCount' = 0
              /\ UNCHANGED <<missedEmissions, lastReturn>>
    /\ UNCHANGED <<storeVars, lastHash, metrics, lastEmissionTime, bsvEcho, cur,
                   throws, restarts, vaultCalls, lastVaultCall, built, oracle,
                   submitted>>
    /\ UNCHANGED <<workerVars, bridgeVars, fnVars, schedVars, auxVars>>

\* analyzeAndGenerateJam returned null: `if (!result) return;` (index.js:506)
\* leaves detectAndEmit from inside the try, past neither `break` nor the
\* release at index.js:589.
ReturnNoResult(reason) ==
    /\ pc' = "idle"
    /\ lastReturn' = reason
    /\ UNCHANGED <<storeVars, lastHash, isEmitting, cur, built>>

\* a use that only stamps the pattern
UsePatternMutant(patternSuccess, selectedPattern, now) ==
    [patternSuccess EXCEPT ![selectedPattern].lastUsed = now]

\* "Update pattern usage" (index.js:405-407)
UsePattern(patternSuccess, selectedPattern, now) ==
    [patternSuccess EXCEPT ![selectedPattern].attempts = @ + 1,
                           ![selectedPattern].lastUsed = now]

\* One attempt of analyzeAndGenerateJam (index.js:301-428) and, when it
\* returns a JAM, jamStore.store (index.js:508-511).
AnalyzeAttempt ==
    /\ pc = "analyzing"
    /\ \E outcome \in AnalysisOutcomes :
         /\ outcome.threw # "no" => throws < MaxThrows
         \* past the audit the try block can only fail where it reads the
         \* parent's file (index.js:361, 393, 401)
         /\ outcome.threw = "build" => lastHash # null
         /\ throws' = IF outcome.threw # "no" THEN throws + 1 ELSE throws
         /\ oracle' = outcome
         /\ LET total == [metrics EXCEPT !.totalAnalyses = @ + 1]
                passed == outcome.threw # "analyze" /\ ~AuditFailed(outcome)
                                                    /\ ~HooksMissing(outcome)
                counted == IF passed THEN [total EXCEPT !.auditPasses = @ + 1]
                           ELSE total
            IN
            IF outcome.threw = "no" /\ AuditFailed(outcome)
            THEN \* index.js:311-317
                 /\ metrics' = [total EXCEPT !.auditFails = @ + 1]
                 /\ ReturnNoResult("audit_fail")
                 /\ UNCHANGED retryCount
            ELSE IF outcome.threw = "no" /\ HooksMissing(outcome)
            THEN \* index.js:319-322
                 /\ metrics' = total
                 /\ ReturnNoResult("no_hooks")
                 /\ UNCHANGED retryCount
            ELSE IF outcome.threw = "no"
            THEN \* index.js:324-412, then index.js:508-511
                 \E cooledBefore \in 0..calls :
                 LET selectedPattern ==
                         SelectOptimalPattern(metrics.patternSuccess, cooledBefore)
                     jam == BuildJam(store, lastHash, calls, selectedPattern)
                     hash == Keccak256(jam)
                 IN  /\ metrics' = [counted EXCEPT
                            !.patternSuccess = UsePattern(@, selectedPattern, calls)]
                     /\ built' = [ jam |-> jam, hash |-> hash,
                                   latest |-> GetLatest(store, mtime) ]
                     /\ store' = StoreWrite(store, hash, jam)
                     /\ writeClock' = writeClock + 1
                     /\ mtime' = MtimeWrite(mtime, hash, writeClock + 1)
                     /\ firstStored' = FirstWrite(firstStored, hash, jam)
                     /\ lastWritten' = hash
                     /\ cur' = [jam |-> jam, hash |-> hash]
                     /\ pc' = "submitting"
                     /\ UNCHANGED <<lastHash, isEmitting, retryCount, lastReturn>>
            ELSE \* index.js:413-427: an exception, before or after the audit
                 IF MayRetry(retryCount)
                 THEN /\ metrics' = counted
                      /\ retryCount' = retryCount + 1
                      /\ UNCHANGED <<storeVars, lastHash, isEmitting, cur, built,
                                     pc, lastReturn>>
                 ELSE /\ metrics' = [counted EXCEPT !.auditFails = @ + 1]
                      /\ ReturnNoResult("retries_exhausted")
                      /\ UNCHANGED retryCount
    /\ UNCHANGED <<lastEmissionTime, missedEmissions, bsvEcho, calls, restarts,
                   vaultCalls, lastVaultCall, submitted>>
    /\ UNCHANGED <<workerVars, bridgeVars, fnVars, schedVars, auxVars>>

\* the end of a cycle that reaches `break` (index.js:578) and the release
\* after the loop (index.js:589)
ReleaseAndReturn(reason) ==
    /\ isEmitting' = FALSE
    /\ pc' = "idle"
    /\ lastReturn' = reason

\* a cycle that advances its state once the emit call has returned
AdvancesStateMutant(outcome) == outcome \in {"wait_throw", "ok"}

\* the state tracking of index.js:541-560 stands behind `await tx.wait()`
\* (537): it runs only in a cycle whose transaction was confirmed
AdvancesState(outcome) == outcome = "ok"

\* Submission, index.js:516-560, and the inner catch, index.js:567-578
Submit ==
    /\ pc = "submitting"
    /\ \E outcome \in {"fee_throw", "call_throw", "wait_throw", "ok"} :
         LET counted == IF outcome = "ok"
                        THEN [metrics EXCEPT !.emissionSuccesses = @ + 1]
                        ELSE [metrics EXCEPT !.emissionFailures = @ + 1]
         IN
         /\ IF outcome = "fee_throw"
            THEN UNCHANGED <<vaultCalls, lastVaultCall>>
            ELSE /\ vaultCalls' = vaultCalls + 1
                 /\ lastVaultCall' = VaultCall(cur.hash, lastHash)
         /\ IF AdvancesState(outcome)
            THEN /\ metrics' = [counted EXCEPT
                        !.patternSuccess[cur.jam.meta.pattern_type].successes = @ + 1]
                 /\ lastEmissionTime' = calls
                 /\ missedEmissions' = 0
                 /\ lastHash' = cur.hash
            ELSE /\ metrics' = counted
                 /\ UNCHANGED <<lastEmissionTime, missedEmissions, lastHash>>
         /\ IF outcome = "ok"
            THEN /\ submitted' = Append(submitted, cur.hash)
                 /\ IF bsvEcho
                    THEN /\ pc' = "anchoring"
                         /\ UNCHANGED <<isEmitting, lastReturn>>
                    ELSE ReleaseAndReturn("submit_ok")
            ELSE /\ ReleaseAndReturn("submit_fail")
                 /\ UNCHANGED submitted
    /\ UNCHANGED <<storeVars, bsvEcho, retryCount, cur, calls, throws, restarts,
                   built, oracle>>
    /\ UNCHANGED <<workerVars, bridgeVars, fnVars, schedVars, auxVars>>

\* Cross-chain anchoring, index.js:562-565: bridgeToBSV throws when every
\* chain failed (part_000:338-368) and the throw lands in the inner catch.
Anchor ==
    /\ pc = "anchoring"
    /\ \E anchored \in BOOLEAN :
         IF anchored
         THEN /\ ReleaseAndReturn("submit_ok")
              /\ UNCHANGED metrics
         ELSE /\ metrics' = [metrics EXCEPT !.emissionFailures = @ + 1]
              /\ ReleaseAndReturn("anchor_fail")
    /\ UNCHANGED <<storeVars, lastHash, lastEmissionTime, missedEmissions, bsvEcho,
                   retryCount, cur, calls, throws, restarts, vaultCalls,
                   lastVaultCall, built, oracle, submitted>>
    /\ UNCHANGED <<workerVars, bridgeVars, fnVars, schedVars, auxVars>>

\* The process is restarted: the module-level state is initialised again
\* (index.js:169-182, 246-248); the jams directory and the chain stay.
Restart ==
    /\ restarts < MaxRestarts
    /\ restarts' = restarts + 1
    /\ lastHash' = null
    /\ isEmitting' = FALSE
    /\ metrics' = ZeroMetrics
    /\ lastEmissionTime' = 0
    /\ missedEmissions' = 0
    /\ pc' = "idle"
    /\ retryCount' = 0
    /\ cur' = NoCycle
    /\ submitted' = <<>>
    /\ lastReturn' = "restart"
    /\ UNCHANGED <<storeVars, bsvEcho, calls, throws, vaultCalls, lastVaultCall,
                   built, oracle>>
    /\ UNCHANGED <<workerVars, bridgeVars, fnVars, schedVars, auxVars>>

----------------------------------------------------------------------------
\* The reflex workers.  Each is a process of its own that reads the jams
\* directory and reacts to SignalRegistered events.

\* update(hash, updates) (index.js:43-51): shallow merge over the stored file
StoreUpdateMutant(st, hash, updates) ==
    IF Retrieve(st, hash) = null THEN st ELSE StoreWrite(st, hash, updates)
StoreUpdate(st, hash, updates) ==
    IF Retrieve(st, hash) = null THEN st
    ELSE StoreWrite(st, hash,
            [f \in (DOMAIN st[hash]) \cup (DOMAIN updates) |->
                IF f \in DOMAIN updates THEN updates[f] ELSE st[hash][f]])

\* proverb.find(step => step.actor === actor): the first such step, or null
FindStep(proverb, actor) ==
    IF \E i \in DOMAIN proverb : proverb[i].actor = actor
    THEN proverb[CHOOSE i \in DOMAIN proverb :
                    /\ proverb[i].actor = actor
                    /\ \A j \in DOMAIN proverb : proverb[j].actor = actor => i <= j]
    ELSE null

\* What the workers find on disk and on chain.  Two records the Strategist
\* stored (a genesis and its child), one file whose meta.audit_pass is false
\* (the workers do not choose what the directory holds), and the hash of an
\* amplification signal, which is registered on chain (substrate.js:1349) but
\* never stored.
GenesisJam == BuildJam(<<>>, null, 1, "CLASSIC_ARBITRAGE")
GenesisHash == Keccak256(GenesisJam)
ChildJam ==
    BuildJam(StoreWrite(<<>>, GenesisHash, GenesisJam), GenesisHash, 2, "YIELD_CAPTURE")
ChildHash == Keccak256(ChildJam)
UnauditedJam == [BuildJam(<<>>, null, 3, "STABLE_ROTATION")
                    EXCEPT !.meta.audit_pass = FALSE]
UnauditedHash == Keccak256(UnauditedJam)
AmplificationHash == Keccak256([originalSignal |-> GenesisHash, cascadeDepth |-> 1])

EventHashes == {GenesisHash, ChildHash, UnauditedHash, AmplificationHash}

WorkerStore ==
    StoreWrite(StoreWrite(StoreWrite(<<>>, GenesisHash, GenesisJam),
                          ChildHash, ChildJam),
               UnauditedHash, UnauditedJam)

WorkerMtime ==
    MtimeWrite(MtimeWrite(MtimeWrite(<<>>, GenesisHash, 1), ChildHash, 2),
               UnauditedHash, 3)

Bump(f, h, n) == [f EXCEPT ![h] = @ + n]

----------------------------------------------------------------------------
\* Amplifier: handleSignal (substrate.js:707-1380)

\* the audit gate, substrate.js:776
AmpAuditOkMutant(jamData) == TRUE
AmpAuditOk(jamData) == jamData # null /\ jamData.meta.audit_pass

\* the lock is released and the handler ends (substrate.js:1378 and the early
\* returns that clear the flag first)
\* WALLET_ADDRESS, the own signer both workers are configured with
\* (substrate.js:277, genesis-jam.json:55): an address is a sequence of
\* characters
YOUR_EMITTER == << "A", "b" >>

\* the senders of the registering transactions: the own signer as the node
\* reports it, in another case than the configuration, and a stranger
Senders == { << "a", "B" >>, << "c", "D" >> }

\* String.prototype.toLowerCase
ToLowerCase(str) ==
    [ i \in DOMAIN str |->
        IF str[i] = "A" THEN "a" ELSE IF str[i] = "B" THEN "b"
        ELSE IF str[i] = "C" THEN "c" ELSE IF str[i] = "D" THEN "d"
        ELSE str[i] ]

\* a filter with the comparison the wrong way round
IsOwnSenderMutant(from) == ToLowerCase(from) # ToLowerCase(YOUR_EMITTER)

\* the sender test of both workers (substrate.js:730, genesis-jam.json:334)
IsOwnSender(from) == ToLowerCase(from) = ToLowerCase(YOUR_EMITTER)

\* no handler in flight
NoRun == [from |-> <<>>, dex |-> 0, baits |-> 0, gasTooHigh |-> FALSE]

\* getRecursiveDEXCascade (dex-config.js:207-248) returns three DEXes
\* whatever the gas price, the trade size and the depth
CascadeLength == 3

AmpRelease(reason) ==
    /\ isAmplifying' = FALSE
    /\ ampRun' = NoRun
    /\ ampPc' = "idle"
    /\ ampHash' = null
    /\ ampJam' = null
    /\ ampLast' = reason

\* the handler returns from inside the try blocks without clearing the flag
AmpReturnLocked(reason) ==
    /\ ampPc' = "idle"
    /\ ampRun' = NoRun
    /\ ampHash' = null
    /\ ampJam' = null
    /\ ampLast' = reason
    /\ UNCHANGED isAmplifying

\* A delivery that finds the lock set is dropped (substrate.js:713-716).
HandleSignalBusy(h) ==
    /\ events < MaxEvents
    /\ isAmplifying
    /\ events' = events + 1
    /\ ampLast' = "dropped"
    /\ UNCHANGED <<isAmplifying, ampPc, ampHash, ampJam, ampTxs, ampSwaps, ampCaptures,
                   ampRun>>
    /\ UNCHANGED <<storeVars, stratVars, mirVars, bridgeVars, fnVars, schedVars, auxVars>>

\* A delivery that finds the lock free takes it (substrate.js:718).
HandleSignalEntry(h) ==
    /\ events < MaxEvents
    /\ ~isAmplifying
    /\ events' = events + 1
    /\ isAmplifying' = TRUE
    /\ ampPc' = "filter"
    /\ ampHash' = h
    /\ UNCHANGED <<ampJam, ampLast, ampTxs, ampSwaps, ampCaptures, ampRun>>
    /\ UNCHANGED <<storeVars, stratVars, mirVars, bridgeVars, fnVars, schedVars, auxVars>>

\* The origin filter, substrate.js:720-755, and the 10 s wait (764).  When
\* event.getTransaction() rejects, the retry arm (1368-1376) runs the loop
\* again and the next attempt returns at the guard on the handler's own lock.
AmpFilter ==
    /\ ampPc = "filter"
    /\ \E from \in Senders, outcome \in {"throw", "no_tx", "not_signal", "signal"} :
         IF outcome = "throw" THEN AmpReturnLocked("retry_busy")
         ELSE IF outcome = "no_tx" THEN AmpRelease("filtered")           \* 723-727
         ELSE IF ~IsOwnSender(from) THEN AmpRelease("not_own")           \* 733-736
         ELSE IF outcome = "not_signal" THEN AmpRelease("filtered")      \* 739-755
         ELSE /\ ampPc' = "verify"
              /\ ampRun' = [NoRun EXCEPT !.from = from]
              /\ UNCHANGED <<isAmplifying, ampHash, ampJam, ampLast>>
    /\ UNCHANGED <<events, ampTxs, ampSwaps, ampCaptures>>
    /\ UNCHANGED <<storeVars, stratVars, mirVars, bridgeVars, fnVars, schedVars, auxVars>>

\* Verification and planning, substrate.js:766-860: the audit gate, the
\* amplifier's step, the legibility and token checks.  Nothing is sent here.
AmpVerify ==
    /\ ampPc = "verify"
    /\ \E feeThrows \in BOOLEAN, legible \in BOOLEAN, gasTooHigh \in BOOLEAN :
         LET jamData == Retrieve(store, ampHash) IN
         IF feeThrows
         THEN AmpRelease("failed")
         ELSE IF ~AmpAuditOk(jamData)
         THEN AmpReturnLocked("untrusted")
         ELSE IF jamData = null
         THEN AmpRelease("failed")          \* destructuring null throws
         ELSE IF FindStep(jamData.proverb, "AMPLIFIER") = null
                 \/ FindStep(jamData.proverb, "AMPLIFIER").action # "SWAP"
         THEN AmpReturnLocked("no_step")
         ELSE IF ~legible
         THEN AmpReturnLocked("skip")
         ELSE /\ ampPc' = "swap"
              /\ ampJam' = jamData
              /\ ampRun' = [ampRun EXCEPT !.dex = 1, !.gasTooHigh = gasTooHigh]
              /\ UNCHANGED <<isAmplifying, ampHash, ampLast>>
    /\ UNCHANGED <<events, ampTxs, ampSwaps, ampCaptures>>
    /\ UNCHANGED <<storeVars, stratVars, mirVars, bridgeVars, fnVars, schedVars, auxVars>>

\* the catch of the cascade loop (substrate.js:1024-1034) goes on to the
\* next DEX whatever threw, the bait transaction being out or not
NextDex(run, baitSent) ==
    [run EXCEPT !.dex = @ + 1, !.baits = @ + (IF baitSent THEN 1 ELSE 0)]

\* One DEX of the cascade, substrate.js:862-1035, and for the DEX that gets
\* through what follows the loop up to swapTx.wait() (1037-1160).
\*   not_sent           the try block throws before a transaction is out
\*   sent_throw         the bait is out and publicTx.wait() rejects (886)
\*   confirmed_return   the bait is confirmed and the mirror wallet holds
\*                      none of the output token: return (896-899)
\*   confirmed_throw    the bait is confirmed and the capture throws
\*                      (891, 905-959)
\*   confirmed          the bait is confirmed and the bundle was waited
\*                      for (961-1018); the loop ends at the break (1023)
\* The gas price read at substrate.js:769 is compared with MAX_GAS_PRICE
\* only behind the loop (1123).
\* A throw on the last DEX ends the loop with 'All DEXes failed' (1030-1033),
\* which the catch at 1359 logs.
AmpSwap ==
    /\ ampPc = "swap"
    /\ \E outcome \in {"not_sent", "sent_throw", "confirmed_return",
                        "confirmed_throw", "confirmed"},
          included \in BOOLEAN :
         LET sent == outcome # "not_sent"
             landed == outcome \in {"confirmed_return", "confirmed_throw", "confirmed"}
         IN
         /\ ampTxs' = Bump(ampTxs, ampHash, IF sent THEN 1 ELSE 0)
         /\ ampSwaps' = Bump(ampSwaps, ampHash, IF landed THEN 1 ELSE 0)
         /\ ampCaptures' = Bump(ampCaptures, ampHash,
                                IF outcome = "confirmed" /\ included THEN 1 ELSE 0)
         /\ IF outcome = "confirmed_return"
            THEN AmpReturnLocked("no_capture")
            ELSE IF outcome = "confirmed"
            THEN IF ampRun.gasTooHigh
                 THEN \* substrate.js:1123-1127
                      AmpReturnLocked("gas_high")
                 ELSE /\ ampPc' = "post"
                      /\ ampRun' = [ampRun EXCEPT !.baits = @ + 1]
                      /\ UNCHANGED <<isAmplifying, ampHash, ampJam, ampLast>>
            ELSE IF ampRun.dex = CascadeLength
            THEN AmpRelease("failed")
            ELSE /\ ampRun' = NextDex(ampRun, sent)
                 /\ UNCHANGED <<isAmplifying, ampPc, ampHash, ampJam, ampLast>>
    /\ UNCHANGED events
    /\ UNCHANGED <<storeVars, stratVars, mirVars, bridgeVars, fnVars, schedVars, auxVars>>

\* After the swap, substrate.js:1173-1358: the token transfer to the mirror
\* (1210), the BSV echo with jamStore.update (1260-1282) and the recursive
\* signal (1349); each failure is caught where it happens.
AmpPost ==
    /\ ampPc = "post"
    /\ \E transferred \in BOOLEAN, echoed \in BOOLEAN, recursive \in BOOLEAN :
         /\ ampTxs' = Bump(ampTxs, ampHash,
                           (IF transferred THEN 1 ELSE 0) + (IF recursive THEN 1 ELSE 0))
         /\ IF echoed /\ Retrieve(store, ampHash) # null
            THEN /\ store' = StoreUpdate(store, ampHash,
                        [recursiveTopology |->
                            [ampJam.recursiveTopology EXCEPT !.bsv = @ + 1]])
                 /\ writeClock' = writeClock + 1
                 /\ mtime' = MtimeWrite(mtime, ampHash, writeClock + 1)
                 /\ lastWritten' = ampHash
                 /\ UNCHANGED firstStored
            ELSE UNCHANGED storeVars
    /\ AmpRelease("amplified")
    /\ UNCHANGED <<events, ampSwaps, ampCaptures>>
    /\ UNCHANGED <<stratVars, mirVars, bridgeVars, fnVars, schedVars, auxVars>>

----------------------------------------------------------------------------
\* Mirror: processSignalEvent (genesis-jam.json:323-544)

\* safeRetrieveJam (genesis-jam.json:115-118): defaults for a missing file
EmptyMeta == [audit_pass |-> FALSE]
SafeRetrieveJam(st, hash) ==
    IF Retrieve(st, hash) # null
    THEN [proverb |-> Retrieve(st, hash).proverb, meta |-> Retrieve(st, hash).meta]
    ELSE [proverb |-> <<>>, meta |-> EmptyMeta]

\* the audit gate, genesis-jam.json:351
MirAuditOk(meta) == meta.audit_pass

RemoveAt(s, i) == SubSeq(s, 1, i - 1) \o SubSeq(s, i + 1, Len(s))

MirAt(i, position) ==
    [mirHandlers EXCEPT ![i].pc = position]

\* the handler returns
MirEnd(i, reason) ==
    /\ mirHandlers' = RemoveAt(mirHandlers, i)
    /\ mirLast' = reason

\* The poll loop calls processSignalEvent for every event without awaiting
\* it (genesis-jam.json:294-297): each call is a handler of its own.
ProcessSignalEvent(h) ==
    /\ events < MaxEvents
    /\ events' = events + 1
    /\ mirHandlers' = Append(mirHandlers, [hash |-> h, pc |-> "filter", from |-> <<>>])
    /\ UNCHANGED <<mirroredSignals, mirTxs, mirActs, mirLast>>
    /\ UNCHANGED <<storeVars, stratVars, ampVars, bridgeVars, fnVars, schedVars, auxVars>>

\* After event.getTransaction(): the origin filter and the mirroredSignals
\* check (genesis-jam.json:331-341); then the 2 s wait (347).
MirFilter(i) ==
    /\ mirHandlers[i].pc = "filter"
    /\ \E from \in Senders, outcome \in {"throw", "tx"} :
         IF outcome = "throw" THEN MirEnd(i, "failed")
         ELSE IF ~IsOwnSender(from) THEN MirEnd(i, "not_own")
         ELSE IF mirHandlers[i].hash \in mirroredSignals
         THEN MirEnd(i, "duplicate")
         ELSE /\ mirHandlers' = [mirHandlers EXCEPT ![i].pc = "wait", ![i].from = from]
              /\ UNCHANGED mirLast
    /\ UNCHANGED <<events, mirroredSignals, mirTxs, mirActs>>
    /\ UNCHANGED <<storeVars, stratVars, ampVars, bridgeVars, fnVars, schedVars, auxVars>>

\* After the wait: the audit gate and the mirror's step
\* (genesis-jam.json:350-369).
MirVerify(i) ==
    /\ mirHandlers[i].pc = "wait"
    /\ LET jam == SafeRetrieveJam(store, mirHandlers[i].hash) IN
         IF ~MirAuditOk(jam.meta) THEN MirEnd(i, "untrusted")
         ELSE IF FindStep(jam.proverb, "MIRROR") = null THEN MirEnd(i, "no_step")
         ELSE /\ mirHandlers' = MirAt(i, "act")
              /\ UNCHANGED mirLast
    /\ UNCHANGED <<events, mirroredSignals, mirTxs, mirActs>>
    /\ UNCHANGED <<storeVars, stratVars, ampVars, bridgeVars, fnVars, schedVars, auxVars>>

\* a mirror that marks the hash as soon as the transaction is submitted
MarkMirroredMutant(signals, hash, outcome) ==
    IF outcome \in {"ok", "submitted_then_throw"} THEN signals \cup {hash} ELSE signals

\* mirroredSignals.add(hash) (genesis-jam.json:535) is reached only past the
\* `await tx.wait()` of the branch that ran (431, 462, 491, 523)
MarkMirrored(signals, hash, outcome) ==
    IF outcome = "ok" THEN signals \cup {hash} ELSE signals

\* The step's action (genesis-jam.json:383-536): approve, then the swap
\* through the vault or the deposit; the hash joins mirroredSignals only when
\* the action completed (535).
MirAct(i) ==
    /\ mirHandlers[i].pc = "act"
    /\ \E outcome \in {"skip", "throw", "approved_then_throw",
                        "submitted_then_throw", "ok"} :
         LET h == mirHandlers[i].hash IN
         IF outcome = "skip"
         THEN /\ MirEnd(i, "skip")
              /\ UNCHANGED <<mirroredSignals, mirTxs, mirActs>>
         ELSE IF outcome = "throw"
         THEN /\ MirEnd(i, "failed")
              /\ UNCHANGED <<mirroredSignals, mirTxs, mirActs>>
         ELSE IF outcome = "approved_then_throw"
         THEN /\ MirEnd(i, "failed")
              /\ mirTxs' = Bump(mirTxs, h, 1)
              /\ UNCHANGED <<mirroredSignals, mirActs>>
         ELSE IF outcome = "submitted_then_throw"
         THEN \* the action's transaction is out and tx.wait() rejects
              /\ MirEnd(i, "failed")
              /\ mirTxs' = Bump(mirTxs, h, 2)
              /\ mirroredSignals' = MarkMirrored(mirroredSignals, h, outcome)
              /\ UNCHANGED mirActs
         ELSE /\ MirEnd(i, "mirrored")
              /\ mirTxs' = Bump(mirTxs, h, 2)
              /\ mirActs' = Bump(mirActs, h, 1)
              /\ mirroredSignals' = MarkMirrored(mirroredSignals, h, outcome)
    /\ UNCHANGED events
    /\ UNCHANGED <<storeVars, stratVars, ampVars, bridgeVars, fnVars, schedVars, auxVars>>

----------------------------------------------------------------------------
\* Gist bridge: updateGist (part_001:37-129)

\* Date.now() when the bridge starts; lastUpdateTime is 0 then, so the first
\* invocation is never inside the interval.
GistStart == MIN_UPDATE_INTERVAL

\* part_001:44-45
RateLimited(now, last) == now - last < MIN_UPDATE_INTERVAL

\* bookkeeping of an invocation: their number, and whether all of them so far
\* started less than MIN_UPDATE_INTERVAL after the first
GistInvoked ==
    /\ gistCalls < MaxGistCalls
    /\ gistCalls' = gistCalls + 1
    /\ gistFirst' = IF gistCalls = 0 THEN gNow ELSE gistFirst
    /\ gistSpread' = IF gistCalls = 0 THEN TRUE
                     ELSE gistSpread /\ gNow - gistFirst < MIN_UPDATE_INTERVAL

\* the finally block, part_001:125-128
GistFinish ==
    /\ isUpdating' = FALSE
    /\ gistPc' = "idle"
    /\ gistI' = 0
    /\ gistWake' = 0

\* part_001:38-41
UpdateGistBusy ==
    /\ isUpdating
    /\ GistInvoked
    /\ UNCHANGED <<gNow, isUpdating, lastUpdateTime, gistPc, gistI, gistWake,
                   gistSkipped, patches>>
    /\ UNCHANGED <<storeVars, stratVars, workerVars, fnVars, schedVars, auxVars>>

\* part_001:43-49
UpdateGistRateLimited ==
    /\ ~isUpdating
    /\ RateLimited(gNow, lastUpdateTime)
    /\ GistInvoked
    /\ UNCHANGED <<gNow, isUpdating, lastUpdateTime, gistPc, gistI, gistWake,
                   gistSkipped, patches>>
    /\ UNCHANGED <<storeVars, stratVars, workerVars, fnVars, schedVars, auxVars>>

\* part_001:51
UpdateGistStart ==
    /\ ~isUpdating
    /\ ~RateLimited(gNow, lastUpdateTime)
    /\ GistInvoked
    /\ isUpdating' = TRUE
    /\ gistPc' = "reading"
    /\ UNCHANGED <<gNow, lastUpdateTime, gistI, gistWake, gistSkipped, patches>>
    /\ UNCHANGED <<storeVars, stratVars, workerVars, fnVars, schedVars, auxVars>>

\* part_001:56-78: latest-jam.json must be readable, non-empty and valid JSON
GistRead ==
    /\ gistPc = "reading"
    /\ \E valid \in BOOLEAN :
         IF valid
         THEN /\ gistPc' = "request"
              /\ gistI' = 0
              /\ UNCHANGED <<isUpdating, gistWake, gistSkipped>>
         ELSE /\ gistSkipped' = TRUE
              /\ GistFinish
    /\ UNCHANGED <<gNow, lastUpdateTime, gistCalls, gistFirst, gistSpread, patches>>
    /\ UNCHANGED <<storeVars, stratVars, workerVars, fnVars, schedVars, auxVars>>

\* One turn of the retry loop, part_001:89-122: the PATCH and its answer
GistRequest ==
    /\ gistPc = "request"
    /\ patches' = patches + 1
    /\ \E status \in {"200", "403_rate_limit", "error"} :
         /\ lastUpdateTime' = IF status = "error" THEN lastUpdateTime ELSE gNow
         /\ IF status = "200" \/ gistI = MAX_RETRIES_GIST - 1
            THEN GistFinish
            ELSE /\ gistPc' = "sleeping"
                 /\ gistWake' = gNow + RETRY_DELAY
                 /\ UNCHANGED <<isUpdating, gistI>>
    /\ UNCHANGED <<gNow, gistCalls, gistFirst, gistSpread, gistSkipped>>
    /\ UNCHANGED <<storeVars, stratVars, workerVars, fnVars, schedVars, auxVars>>

\* sleep(RETRY_DELAY) is over (part_001:120): the loop goes round
GistWake ==
    /\ gistPc = "sleeping"
    /\ gNow >= gistWake
    /\ gistPc' = "request"
    /\ gistI' = gistI + 1
    /\ UNCHANGED <<gNow, isUpdating, lastUpdateTime, gistWake, gistCalls, gistFirst,
                   gistSpread, gistSkipped, patches>>
    /\ UNCHANGED <<storeVars, stratVars, workerVars, fnVars, schedVars, auxVars>>

\* time passes
Tick ==
    /\ gNow + RETRY_DELAY <= GistStart + MaxTicks * RETRY_DELAY
    /\ gNow' = gNow + RETRY_DELAY
    /\ UNCHANGED <<isUpdating, lastUpdateTime, gistPc, gistI, gistWake, gistCalls,
                   gistFirst, gistSpread, gistSkipped, patches>>
    /\ UNCHANGED <<storeVars, stratVars, workerVars, fnVars, schedVars, auxVars>>

----------------------------------------------------------------------------
\* JAMStore under the calls its two callers make, in any order: the
\* Strategist stores a record under its content hash (index.js:409-410, 511)
\* and the amplifier merges the anchor counter into a stored record
\* (substrate.js:1277-1278).

\* jamStore.store(hash, jam), hash the keccak256 of the serialized jam
StorePut ==
    /\ writeClock < MaxWrites
    /\ \E parentHash \in (DOMAIN store) \cup {null},
          selectedPattern \in PatternNames, ts \in 1..MaxTimestamp :
         LET jam == BuildJam(store, parentHash, ts, selectedPattern)
             hash == Keccak256(jam)
         IN  /\ store' = StoreWrite(store, hash, jam)
             /\ writeClock' = writeClock + 1
             /\ mtime' = MtimeWrite(mtime, hash, writeClock + 1)
             /\ firstStored' = FirstWrite(firstStored, hash, jam)
             /\ lastWritten' = hash
    /\ UNCHANGED <<stratVars, workerVars, bridgeVars, fnVars, schedVars, auxVars>>

\* jamStore.update(hash, { recursiveTopology }) after recursiveTopology.bsv
\* was incremented
StoreAnnotate ==
    /\ writeClock < MaxWrites
    /\ \E hash \in DOMAIN store :
         /\ store' = StoreUpdate(store, hash,
                [recursiveTopology |->
                    [store[hash].recursiveTopology EXCEPT !.bsv = @ + 1]])
         /\ writeClock' = writeClock + 1
         /\ mtime' = MtimeWrite(mtime, hash, writeClock + 1)
         /\ lastWritten' = hash
         /\ UNCHANGED firstStored
    /\ UNCHANGED <<stratVars, workerVars, bridgeVars, fnVars, schedVars, auxVars>>

----------------------------------------------------------------------------
\* Initial states and specifications

InitStore ==
    /\ store = <<>>
    /\ mtime = <<>>
    /\ writeClock = 0
    /\ firstStored = <<>>
    /\ lastWritten = null

InitStrategist ==
    /\ lastHash = null
    /\ isEmitting = FALSE
    /\ metrics = ZeroMetrics
    /\ lastEmissionTime = 0
    /\ missedEmissions = 0
    /\ pc = "idle"
    /\ retryCount = 0
    /\ cur = NoCycle
    /\ calls = 0
    /\ throws = 0
    /\ restarts = 0
    /\ lastReturn = "none"
    /\ vaultCalls = 0
    /\ lastVaultCall = null
    /\ built = null
    /\ oracle = null
    /\ submitted = <<>>

\* ENABLE_BSV_ECHO && BSV_PRIVATE_KEY of the environment (index.js:563)
InitEnvironment ==
    bsvEcho \in BOOLEAN

InitWorkers ==
    /\ events = 0
    /\ isAmplifying = FALSE
    /\ ampPc = "idle"
    /\ ampHash = null
    /\ ampJam = null
    /\ ampLast = "none"
    /\ ampTxs = [h \in EventHashes |-> 0]
    /\ ampSwaps = [h \in EventHashes |-> 0]
    /\ ampCaptures = [h \in EventHashes |-> 0]
    /\ ampRun = NoRun
    /\ mirroredSignals = {}
    /\ mirHandlers = <<>>
    /\ mirTxs = [h \in EventHashes |-> 0]
    /\ mirActs = [h \in EventHashes |-> 0]
    /\ mirLast = "none"

InitBridge ==
    /\ gNow = GistStart
    /\ isUpdating = FALSE
    /\ lastUpdateTime = 0
    /\ gistPc = "idle"
    /\ gistI = 0
    /\ gistWake = 0
    /\ gistCalls = 0
    /\ gistFirst = 0
    /\ gistSpread = TRUE
    /\ gistSkipped = FALSE
    /\ patches = 0

InitFn ==
    /\ fnIn = null
    /\ fnOut = null

\* the watcher, the anchor client, the poller and the contract are left out
\* of the specifications of the other components
InitAux ==
    /\ debounce = null
    /\ echo = null
    /\ poller = null
    /\ ledger = null

\* no timer chain: the specifications of the other components leave it out
NoSched == [base |-> 0, now |-> 0, jitter |-> 0, interval |-> 0,
            timers |-> 0, running |-> 0, initialRun |-> FALSE, cycles |-> 0]

\* The Strategist over an empty jams directory
Init ==
    /\ InitFn
    /\ sched = NoSched
    /\ InitAux
    /\ InitStore
    /\ InitStrategist
    /\ InitEnvironment
    /\ InitWorkers
    /\ InitBridge

Next ==
    \/ DetectAndEmitBusy
    \/ DetectAndEmitEntry
    \/ AnalyzeAttempt
    \/ Submit
    \/ Anchor
    \/ Restart

Spec == Init /\ [][Next]_vars

\* The reflex workers over a directory the Strategist has written to
InitWorkerStore ==
    /\ store = WorkerStore
    /\ mtime = WorkerMtime
    /\ writeClock = 3
    /\ firstStored = WorkerStore
    /\ lastWritten = UnauditedHash

InitW ==
    /\ InitFn
    /\ sched = NoSched
    /\ InitAux
    /\ InitWorkerStore
    /\ InitStrategist
    /\ bsvEcho = FALSE
    /\ InitWorkers
    /\ InitBridge

NextWorkers ==
    \/ \E h \in EventHashes : HandleSignalBusy(h)
    \/ \E h \in EventHashes : HandleSignalEntry(h)
    \/ AmpFilter
    \/ AmpVerify
    \/ AmpSwap
    \/ AmpPost
    \/ \E h \in EventHashes : ProcessSignalEvent(h)
    \/ \E i \in DOMAIN mirHandlers : MirFilter(i)
    \/ \E i \in DOMAIN mirHandlers : MirVerify(i)
    \/ \E i \in DOMAIN mirHandlers : MirAct(i)

SpecWorkers == InitW /\ [][NextWorkers]_vars

\* The gist bridge
InitB ==
    /\ InitFn
    /\ sched = NoSched
    /\ InitAux
    /\ InitStore
    /\ InitStrategist
    /\ bsvEcho = FALSE
    /\ InitWorkers
    /\ InitBridge

NextBridge ==
    \/ UpdateGistBusy
    \/ UpdateGistRateLimited
    \/ UpdateGistStart
    \/ GistRead
    \/ GistRequest
    \/ GistWake
    \/ Tick

SpecBridge == InitB /\ [][NextBridge]_vars

\* The store under its callers, from an empty directory
\* ---------------------------------------------------------------------
\* selectOptimalPattern applied to statistics the counters of
\* index.js:406-407 and 555 can hold: successes never above attempts, a
\* lastUsed exactly for the patterns that were attempted.
\* ---------------------------------------------------------------------
StatsSamples ==
    { [attempts |-> a, successes |-> s, lastUsed |-> u] :
        a \in {0, 1, 2, 5}, s \in {0, 1, 2, 5}, u \in {0, 1, MaxUse} }

PatternStats ==
    { st \in StatsSamples :
        /\ st.successes \in {st.attempts, st.attempts \div 2}
        /\ (st.attempts = 0) <=> (st.lastUsed = 0) }

InitSelect ==
    /\ InitStore
    /\ sched = NoSched
    /\ InitAux
    /\ InitStrategist
    /\ InitEnvironment
    /\ InitWorkers
    /\ InitBridge
    /\ fnIn \in { [patternSuccess |-> ps, cooledBefore |-> c] :
                    ps \in [PatternNames -> PatternStats], c \in 0..MaxUse }
    /\ fnOut = null

ApplySelect ==
    /\ fnOut = null
    /\ fnOut' = [pattern |-> SelectOptimalPattern(fnIn.patternSuccess, fnIn.cooledBefore)]
    /\ UNCHANGED <<fnIn, storeVars, stratVars, workerVars, bridgeVars, schedVars, auxVars>>

SpecSelect == InitSelect /\ [][ApplySelect]_vars

\* ---------------------------------------------------------------------
\* analyzeContract (substrate.js:85-248) applied to one address.  The
\* arguments say what the address, the cache, the RPC node and the
\* decompiler API hold when it is called:
\*   allowListed    the address is one of KNOWN_SAFE_CONTRACTS
\*   cache          "miss": no entry with a bytecode_proof; "expired" /
\*                  "valid": an entry older / younger than the validity window
\*   cachedAudit    the audit_pass of that entry
\*   decompilerUrl  DECOMPILER_URL
\*   code           what provider.getCode does: it rejects ("rpc_error"),
\*                  returns "0x" ("empty") or returns code, of which only
\*                  what the heuristics read is kept
\*   reply          what the decompiler API does with the POST
\* The result keeps audit_pass, source_estimate, bait_hooks and reason.
\* ---------------------------------------------------------------------
DefaultHooks == << "swap", "swapExactETHForTokens", "swapExactTokensForTokens" >>

\* fetchBytecode (substrate.js:35-46)
FetchBytecode(code) == IF code.fetch = "code" THEN code ELSE null

\* decompileBytecode (substrate.js:48-77): null unless the API answered 2xx
\* with a JSON body
DecompileBytecode(reply) ==
    IF reply.kind = "ok"
        THEN [source_estimate |-> reply.source, bait_hooks |-> reply.bait_hooks]
        ELSE null

\* a score that does not count SELFDESTRUCT
RiskScoreMutant(bytecode) ==
    (IF bytecode.has_create2 THEN 618 ELSE 0)
    + (IF bytecode.has_delegatecall THEN 382 ELSE 0)

\* riskScore (substrate.js:194-198), in thousandths
RiskScore(bytecode) ==
    (IF bytecode.has_create2 THEN 618 ELSE 0)
    + (IF bytecode.has_delegatecall THEN 382 ELSE 0)
    + (IF bytecode.has_selfdestruct THEN 1000 ELSE 0)

\* the entry a valid cache hit returns (substrate.js:89-97): only the
\* results built at substrate.js:200-217 carry the timestamp that makes an
\* entry valid
CachedResult(cachedAudit) ==
    [ audit_pass |-> cachedAudit,
      source_estimate |-> "Phi-aligned heuristic analysis",
      bait_hooks |-> DefaultHooks ]

\* substrate.js:116-124
KnownSafeResult ==
    [ audit_pass |-> TRUE,
      source_estimate |-> "Known safe contract",
      bait_hooks |-> DefaultHooks ]

\* substrate.js:134-173, for an address that is not allow-listed
NoDecompilerResult(bytecode) ==
    LET base == [ audit_pass |-> TRUE,
                  source_estimate |-> "Heuristic analysis (no decompiler available)",
                  bait_hooks |-> DefaultHooks ]
    IN  IF bytecode.size < 100
            THEN [ audit_pass |-> FALSE,
                   source_estimate |-> base.source_estimate,
                   bait_hooks |-> DefaultHooks,
                   reason |-> "Contract too small - likely a proxy" ]
        ELSE IF bytecode.has_selfdestruct
            THEN [ audit_pass |-> FALSE,
                   source_estimate |-> base.source_estimate,
                   bait_hooks |-> DefaultHooks,
                   reason |-> "Contract contains SELFDESTRUCT opcode" ]
        ELSE base

\* substrate.js:200-222
PhiResult(bytecode, decomp) ==
    LET source == IF decomp # null THEN decomp.source_estimate
                  ELSE "Phi-aligned heuristic analysis"
        \* decomp?.bait_hooks || [...]: an empty array is truthy
        hooks == IF decomp # null THEN decomp.bait_hooks ELSE DefaultHooks
    IN  IF bytecode.size < 100
            THEN [ audit_pass |-> FALSE, source_estimate |-> source,
                   bait_hooks |-> hooks,
                   reason |-> "Contract too small - likely a proxy" ]
            ELSE [ audit_pass |-> RiskScore(bytecode) < 800,
                   source_estimate |-> source, bait_hooks |-> hooks ]

\* analyzeContract (substrate.js:85-230): what it returns, and whether it
\* called decompileBytecode on the way
AnalyzeContract(in) ==
    LET bytecode == FetchBytecode(in.code)
    IN  IF in.cache = "valid"
            THEN [returned |-> CachedResult(in.cachedAudit), decompilerCalled |-> FALSE]
        ELSE IF bytecode = null
            THEN [returned |-> [audit_pass |-> FALSE, reason |-> "No bytecode"],
                  decompilerCalled |-> FALSE]
        ELSE IF in.allowListed
            THEN [returned |-> KnownSafeResult, decompilerCalled |-> FALSE]
        ELSE IF in.decompilerUrl = "example.com"
            THEN [returned |-> NoDecompilerResult(bytecode), decompilerCalled |-> FALSE]
        ELSE [returned |-> PhiResult(bytecode, DecompileBytecode(in.reply)),
              decompilerCalled |-> TRUE]

Codes ==
    { [fetch |-> f, size |-> 0, has_create2 |-> FALSE,
       has_delegatecall |-> FALSE, has_selfdestruct |-> FALSE] :
        f \in {"rpc_error", "empty"} }
    \cup
    { [fetch |-> "code", size |-> n, has_create2 |-> c,
       has_delegatecall |-> d, has_selfdestruct |-> x] :
        n \in {99, 100}, c \in BOOLEAN, d \in BOOLEAN, x \in BOOLEAN }

Replies ==
    { [kind |-> k, source |-> "", bait_hooks |-> <<>>] :
        k \in {"timeout", "not_ok", "malformed"} }
    \cup
    { [kind |-> "ok", source |-> "contract C {}", bait_hooks |-> h] :
        h \in { <<>>, << "swap" >> } }

AnalyzeInputs ==
    { in \in [ allowListed : BOOLEAN,
               cache : {"miss", "expired", "valid"},
               cachedAudit : BOOLEAN,
               decompilerUrl : {"api.evmdecompiler.com", "example.com"},
               code : Codes,
               reply : Replies ] :
        \* the entries written for an allow-listed address
        \* (substrate.js:116-127) have no timestamp and are never valid
        in.allowListed => in.cache # "valid" }

InitAnalyze ==
    /\ InitStore
    /\ sched = NoSched
    /\ InitAux
    /\ InitStrategist
    /\ InitEnvironment
    /\ InitWorkers
    /\ InitBridge
    /\ fnIn \in AnalyzeInputs
    /\ fnOut = null

ApplyAnalyze ==
    /\ fnOut = null
    /\ fnOut' = AnalyzeContract(fnIn)
    /\ UNCHANGED <<fnIn, storeVars, stratVars, workerVars, bridgeVars, schedVars, auxVars>>

SpecAnalyze == InitAnalyze /\ [][ApplyAnalyze]_vars

\* ---------------------------------------------------------------------
\* The emit-or-skip decision of detectAndEmit (index.js:441-495) taken
\* twice from the same state at the same clock value.  The clock is the
\* UTC minute of the day and the time since the last emission; the
\* multipliers and the probability are kept in thousandths.
\* ---------------------------------------------------------------------
CONSENSUS_TIMES ==
    << [hour |-> 13, minute |-> 21], [hour |-> 21, minute |-> 1],
       [hour |-> 3, minute |-> 33], [hour |-> 8, minute |-> 1],
       [hour |-> 20, minute |-> 8] >>

SUBINTERVALS == {3, 5, 8, 13}

Abs(x) == IF x < 0 THEN -x ELSE x

Least(S) == CHOOSE x \in S : \A y \in S : x <= y

\* getMinDistanceToConsensusWindow (index.js:260-275)
GetMinDistanceToConsensusWindow(currentMinutes) ==
    Least({ Least({ Abs(currentMinutes - windowMinutes),
                    Abs(currentMinutes - windowMinutes + 1440),
                    Abs(currentMinutes - windowMinutes - 1440) }) :
            windowMinutes \in { CONSENSUS_TIMES[i].hour * 60 + CONSENSUS_TIMES[i].minute :
                                  i \in DOMAIN CONSENSUS_TIMES } })

\* getConsensusMultiplier (index.js:277-284)
GetConsensusMultiplier(currentMinutes) ==
    LET minDistance == GetMinDistanceToConsensusWindow(currentMinutes)
    IN  IF minDistance <= 2 THEN 2618
        ELSE IF minDistance <= 5 THEN 1618
        ELSE IF minDistance <= 8 THEN 618
        ELSE IF minDistance <= 13 THEN 382
        ELSE 1000

\* isConsensusTime (index.js:286-288)
IsConsensusTime(currentMinutes) == GetMinDistanceToConsensusWindow(currentMinutes) <= 2

\* adjustedInterval (index.js:453-454)
AdjustedInterval(multiplier) ==
    LET adjusted == (BASE_EMISSION_INTERVAL * 1000) \div multiplier
    IN  IF adjusted < 60000 THEN 60000 ELSE adjusted

\* emissionProbability (index.js:482)
EmissionProbability(multiplier) == 300 + (700 * (multiplier - 1000)) \div 1618

\* the decision for a state and a clock value, with `random` what
\* Math.random() returned (index.js:485)
DecideAt(in, random) ==
    LET multiplier == GetConsensusMultiplier(in.currentMinutes)
    IN  EmitDecision(in.lastEmissionTime > 0,
                     (in.currentMinutes % 60) % 15 \in SUBINTERVALS,
                     in.currentTime - in.lastEmissionTime < AdjustedInterval(multiplier),
                     IsConsensusTime(in.currentMinutes),
                     random < EmissionProbability(multiplier))

\* values of Math.random(), in thousandths
RandomDraws == {0, 100, 400, 999}

DecideInputs ==
    [ currentMinutes : 0..1439,
      currentTime : {3000000},
      lastEmissionTime : {0, 400000, 2000000, 2950000},
      missedEmissions : 0..MaxMissed ]

InitDecide ==
    /\ InitStore
    /\ sched = NoSched
    /\ InitAux
    /\ InitStrategist
    /\ InitEnvironment
    /\ InitWorkers
    /\ InitBridge
    /\ fnIn \in DecideInputs
    /\ fnOut = null

ApplyDecide ==
    /\ fnOut = null
    /\ \E random1 \in RandomDraws, random2 \in RandomDraws :
         fnOut' = [first |-> DecideAt(fnIn, random1), second |-> DecideAt(fnIn, random2),
                   probability |->
                       EmissionProbability(GetConsensusMultiplier(fnIn.currentMinutes))]
    /\ UNCHANGED <<fnIn, storeVars, stratVars, workerVars, bridgeVars, schedVars, auxVars>>

SpecDecide == InitDecide /\ [][ApplyDecide]_vars

InitS ==
    /\ InitFn
    /\ sched = NoSched
    /\ InitAux
    /\ InitStore
    /\ InitStrategist
    /\ bsvEcho = FALSE
    /\ InitWorkers
    /\ InitBridge

NextStore ==
    \/ StorePut
    \/ StoreAnnotate

SpecStore == InitS /\ [][NextStore]_vars

----------------------------------------------------------------------------
\* The Strategist's timer chain (index.js:625-682, 770).  Loading the module
\* starts one detectAndEmit directly (665) and calls scheduleNextEmission
\* once (770); from then on the callback of each timer calls detectAndEmit
\* and schedules the next timer in the finally of its promise.
\* detectAndEmit is kept to its start and its settling.
\* ---------------------------------------------------------------------
Min(a, b) == IF a < b THEN a ELSE b

\* values of DETECT_INTERVAL: unset, and one hour
BaseIntervals == {DEFAULT_BASE_INTERVAL, 3600000}

\* UTC minutes of the day at which a timer is set
ScheduleMinutes == {0, 212, 213, 480, 800, 1205, 1208, 1259, 1261, 1439}

\* values of Math.floor(Math.random() * 60000)
Jitters == {0, 30000, MAX_JITTER - 1}

\* calculateOptimalInterval (index.js:625-657)
CalculateOptimalInterval(currentMinutes, jitter) ==
    LET until(i) ==
            LET minutesUntil == (CONSENSUS_TIMES[i].hour * 60 + CONSENSUS_TIMES[i].minute)
                                  - currentMinutes
            IN IF minutesUntil <= 0 THEN minutesUntil + DAY_MINUTES ELSE minutesUntil
        nextWindowMinutes == Least({ until(i) : i \in DOMAIN CONSENSUS_TIMES })
    IN Min(nextWindowMinutes * MINUTE + jitter, MAX_OPTIMAL_INTERVAL)

\* a timer set to the optimal interval alone
ScheduleIntervalMutant(base, currentMinutes, jitter) ==
    CalculateOptimalInterval(currentMinutes, jitter)

\* the delay scheduleNextEmission hands to setTimeout (index.js:670)
ScheduleInterval(base, currentMinutes, jitter) ==
    Min(CalculateOptimalInterval(currentMinutes, jitter), base)

\* scheduleNextEmission (index.js:669-682): one more timer
ScheduleNextEmission(s, currentMinutes, jitter) ==
    [s EXCEPT !.now = currentMinutes, !.jitter = jitter,
              !.interval = ScheduleInterval(s.base, currentMinutes, jitter),
              !.timers = @ + 1]

\* the module is loaded: the direct run is under way and the first timer set
InitSchedule ==
    /\ InitFn
    /\ InitAux
    /\ InitStore
    /\ InitStrategist
    /\ bsvEcho = FALSE
    /\ InitWorkers
    /\ InitBridge
    /\ \E base \in BaseIntervals, currentMinutes \in ScheduleMinutes, jitter \in Jitters :
         sched = ScheduleNextEmission([NoSched EXCEPT !.base = base, !.initialRun = TRUE],
                                      currentMinutes, jitter)

\* the run started at index.js:665 settles; nothing hangs on its promise
InitialRunSettles ==
    /\ sched.initialRun
    /\ sched' = [sched EXCEPT !.initialRun = FALSE]
    /\ UNCHANGED <<storeVars, stratVars, workerVars, bridgeVars, fnVars, auxVars>>

\* a timer expires: its callback calls detectAndEmit (index.js:677-678)
TimerFires ==
    /\ sched.timers > 0
    /\ sched' = [sched EXCEPT !.timers = @ - 1, !.running = @ + 1]
    /\ UNCHANGED <<storeVars, stratVars, workerVars, bridgeVars, fnVars, auxVars>>

\* the promise of a scheduled detectAndEmit settles and its finally
\* callback calls scheduleNextEmission (index.js:678-680).  detectAndEmit
\* catches what its steps throw, so the promise is fulfilled, whatever the
\* cycle came to.
CycleSettles ==
    /\ sched.running > 0
    /\ \E outcome \in {"busy", "skipped", "no_result", "submit_fail", "submit_ok"},
          currentMinutes \in ScheduleMinutes, jitter \in Jitters :
         sched' = ScheduleNextEmission(
                      [sched EXCEPT !.running = @ - 1,
                                    !.cycles = Min(@ + 1, MaxCycles)],
                      currentMinutes, jitter)
    /\ UNCHANGED <<storeVars, stratVars, workerVars, bridgeVars, fnVars, auxVars>>

NextSchedule ==
    \/ InitialRunSettles
    \/ TimerFires
    \/ CycleSettles

SpecSchedule == InitSchedule /\ [][NextSchedule]_vars

----------------------------------------------------------------------------
\* The resonance of a record (index.js:340-352, 402), in thousandths.
\* ---------------------------------------------------------------------
\* PROVERB_PATTERNS[p].baseResonance (index.js:197, 205, 213, 221)
BaseResonance ==
    [ CLASSIC_ARBITRAGE |-> 1618, STABLE_ROTATION |-> 618,
      YIELD_CAPTURE |-> 2618, LIQUIDITY_PROBE |-> 1000 ]

\* getPatternSuccessRate (index.js:618-622)
GetPatternSuccessRate(stats) ==
    IF stats.attempts = 0 THEN 500 ELSE (1000 * stats.successes) \div stats.attempts

\* adjustedConfidence (index.js:347-348)
AdjustedConfidence(baseResonance, successRate, missed, magnitude) ==
    Min(990, (baseResonance * (1000 + successRate)) \div 2000
               + missed * 100 + (magnitude * 50) \div 1000)

\* adaptiveResonance (index.js:351), the record's resonance (402)
AdaptiveResonance(in) ==
    (AdjustedConfidence(in.baseResonance, GetPatternSuccessRate(in.stats),
                        in.missedEmissions, in.magnitude)
       * GetConsensusMultiplier(in.currentMinutes)) \div 1000

\* values of calculateVectorMagnitude(missedEmissionsVector): none missed,
\* and misses recorded far from and on a window
Magnitudes == {0, 382, 2618}

\* minutes of the day 0, 5, 8, 13 and more than 13 minutes from the window
\* at 03:33
ResonanceMinutes == {213, 208, 205, 200, 100}

ResonanceInputs ==
    [ baseResonance : { BaseResonance[p] : p \in PatternNames },
      stats : { st \in PatternStats : st.lastUsed \in {0, 1} },
      missedEmissions : 0..MaxMissed,
      magnitude : Magnitudes,
      currentMinutes : ResonanceMinutes ]

InitResonance ==
    /\ InitStore
    /\ sched = NoSched
    /\ InitAux
    /\ InitStrategist
    /\ InitEnvironment
    /\ InitWorkers
    /\ InitBridge
    /\ fnIn \in ResonanceInputs
    /\ fnOut = null

ApplyResonance ==
    /\ fnOut = null
    /\ fnOut' = [resonance |-> AdaptiveResonance(fnIn)]
    /\ UNCHANGED <<fnIn, storeVars, stratVars, workerVars, bridgeVars, schedVars, auxVars>>

SpecResonance == InitResonance /\ [][ApplyResonance]_vars

----------------------------------------------------------------------------
\* The gist updater's file watcher (part_001:144-172).  latest-jam.json is
\* rewritten by syncLatestJam, which the Strategist runs every 30 s and one
\* second after a change in the jams directory (index.js:81-137, 797-807);
\* the clock advances in steps of that period and a step sees at most one
\* change of the file.
\* ---------------------------------------------------------------------
\* updateQueue.filter(time => now - time < 3600000) (part_001:158)
RECURSIVE FilterQueue(_, _)
FilterQueue(queue, now) ==
    IF queue = <<>> THEN <<>>
    ELSE IF now - Head(queue) < QUEUE_WINDOW
         THEN << Head(queue) >> \o FilterQueue(Tail(queue), now)
         ELSE FilterQueue(Tail(queue), now)

InitDebounce ==
    /\ InitFn
    /\ sched = NoSched
    /\ echo = null
    /\ poller = null
    /\ ledger = null
    /\ InitStore
    /\ InitStrategist
    /\ bsvEcho = FALSE
    /\ InitWorkers
    /\ InitBridge
    /\ debounce = [now |-> 0, timer |-> null, updateQueue |-> <<>>,
                   changes |-> 0, lastChange |-> 0, triggered |-> 0, lastTrigger |-> 0]

\* the callback of fs.watch for a "change" event (part_001:148-171)
WatchChange ==
    /\ debounce.changes = 0 \/ debounce.lastChange < debounce.now
    /\ LET now == debounce.now
           queue == FilterQueue(Append(debounce.updateQueue, now), now)
       IN debounce' = [debounce EXCEPT
                !.changes = 1,
                !.lastChange = now,
                !.updateQueue = queue,
                \* clearTimeout at 150-152, setTimeout at 167-170 unless
                \* the handler returned at 161-164
                !.timer = IF Len(queue) > QUEUE_LIMIT THEN null
                          ELSE << now + DEBOUNCE_DELAY >>]
    /\ UNCHANGED <<storeVars, stratVars, workerVars, bridgeVars, fnVars, schedVars>>
    /\ UNCHANGED <<echo, poller, ledger>>

\* the debounce timer is set and its delay is over
TimerDue(d) == IF d.timer = null THEN FALSE ELSE d.now >= d.timer[1]

\* the debounce timer expires: updateGist is called (part_001:167-170)
DebounceFires ==
    /\ TimerDue(debounce)
    /\ debounce' = [debounce EXCEPT !.timer = null,
                                    !.triggered = 1,
                                    !.lastTrigger = debounce.now]
    /\ UNCHANGED <<storeVars, stratVars, workerVars, bridgeVars, fnVars, schedVars>>
    /\ UNCHANGED <<echo, poller, ledger>>

\* time passes, but not past a timer that is due
WatchTick ==
    /\ debounce.now < MaxWatchTicks * SYNC_INTERVAL
    /\ ~TimerDue(debounce)
    /\ debounce' = [debounce EXCEPT !.now = @ + SYNC_INTERVAL]
    /\ UNCHANGED <<storeVars, stratVars, workerVars, bridgeVars, fnVars, schedVars>>
    /\ UNCHANGED <<echo, poller, ledger>>

NextDebounce ==
    \/ WatchChange
    \/ DebounceFires
    \/ WatchTick

SpecDebounce == InitDebounce /\ [][NextDebounce]_vars

----------------------------------------------------------------------------
\* The anchor client (part_000:209-331): emitEcho and the two requests it
\* makes, fetchUTXOs and broadcastTx.  A request and the wait that follows a
\* 429 answer are one step; the wait is kept in echo.waited.
\* ---------------------------------------------------------------------
RECURSIVE Pow2(_)
Pow2(n) == IF n = 0 THEN 1 ELSE 2 * Pow2(n - 1)

\* the decimal digits a string may start with
DigitValue ==
    [ c \in {"0", "1", "2", "3", "4", "5", "6", "7", "8", "9"} |->
        CASE c = "0" -> 0 [] c = "1" -> 1 [] c = "2" -> 2 [] c = "3" -> 3
          [] c = "4" -> 4 [] c = "5" -> 5 [] c = "6" -> 6 [] c = "7" -> 7
          [] c = "8" -> 8 [] c = "9" -> 9 ]

\* parseInt of a string of decimal digits
RECURSIVE ParseDigits(_, _)
ParseDigits(str, acc) ==
    IF str = <<>> THEN acc
    ELSE ParseDigits(Tail(str), 10 * acc + DigitValue[Head(str)])

ParseInt(str) == ParseDigits(str, 0)

\* values of the retry-after header of a 429 answer: absent, "2", "60"
RetryAfterHeaders == { null, << "2" >>, << "6", "0" >> }

\* a client that keeps retrying at retryCount 5
MayRetry429Mutant(count) == count <= MAX_429_RETRIES

\* part_000:229 and 316
MayRetry429(count) == count < MAX_429_RETRIES

\* the delay before the retry (part_000:226-227, 313-314), in milliseconds
RetryDelay(retryAfter, count) ==
    IF retryAfter # null
        THEN ParseInt(retryAfter) * 1000
        ELSE Min(MAX_BACKOFF, BACKOFF_STEP * Pow2(count))

NoEcho == [pc |-> "idle", i |-> 0, retryCount |-> 0, requests |-> 0, sent |-> 0,
           waited |-> null, result |-> "none", calls |-> 0]

InitEcho ==
    /\ InitFn
    /\ sched = NoSched
    /\ debounce = null
    /\ poller = null
    /\ ledger = null
    /\ InitStore
    /\ InitStrategist
    /\ bsvEcho = FALSE
    /\ InitWorkers
    /\ InitBridge
    /\ echo = NoEcho

\* emitEcho is called (part_000:266-270): the first attempt starts
EmitEcho ==
    /\ echo.pc = "idle"
    /\ echo.calls < MaxEchoCalls
    /\ echo' = [NoEcho EXCEPT !.pc = "fetch", !.calls = echo.calls + 1]
    /\ UNCHANGED <<storeVars, stratVars, workerVars, bridgeVars, fnVars, schedVars>>
    /\ UNCHANGED <<debounce, poller, ledger>>

\* return null after the loop, or out of it (part_000:273, 294)
EchoReturn(e, result) ==
    [e EXCEPT !.pc = "idle", !.result = result, !.retryCount = 0, !.requests = 0]

\* the catch of emitEcho (part_000:286-291) and the loop's next turn; also
\* the turn after createEchoTx returned null (279, 292)
NextAttempt(e) ==
    IF e.i + 1 < ECHO_RETRIES
        THEN [e EXCEPT !.pc = "fetch", !.i = @ + 1, !.retryCount = 0, !.requests = 0]
        ELSE EchoReturn([e EXCEPT !.i = @ + 1], "null")

\* one request of fetchUTXOs or broadcastTx answered 429
\* (part_000:225-235, 312-322)
RateLimitedRequest(e, retryAfter) ==
    IF MayRetry429(e.retryCount)
        THEN [e EXCEPT !.retryCount = @ + 1,
                       !.waited = [retryAfter |-> retryAfter, retryCount |-> e.retryCount,
                                   delay |-> RetryDelay(retryAfter, e.retryCount)]]
        ELSE NextAttempt(e)

\* one request of fetchUTXOs (part_000:210-263)
FetchUTXOs ==
    /\ echo.pc = "fetch"
    /\ \E answer \in {"429", "error", "empty", "utxos"}, retryAfter \in RetryAfterHeaders :
         LET e == [echo EXCEPT !.requests = @ + 1, !.sent = @ + 1]
         IN echo' = CASE answer = "429" -> RateLimitedRequest(e, retryAfter)
                      [] answer = "error" -> NextAttempt(e)
                      [] answer = "empty" -> EchoReturn(e, "null")
                      [] answer = "utxos" -> [e EXCEPT !.pc = "create"]
    /\ UNCHANGED <<storeVars, stratVars, workerVars, bridgeVars, fnVars, schedVars>>
    /\ UNCHANGED <<debounce, poller, ledger>>

\* createEchoTx (part_000:116-172) returns the transaction, or null
CreateEchoTx ==
    /\ echo.pc = "create"
    /\ \E created \in BOOLEAN :
         echo' = IF created
                 THEN [echo EXCEPT !.pc = "broadcast", !.retryCount = 0, !.requests = 0]
                 ELSE NextAttempt(echo)
    /\ UNCHANGED <<storeVars, stratVars, workerVars, bridgeVars, fnVars, schedVars>>
    /\ UNCHANGED <<debounce, poller, ledger>>

\* one request of broadcastTx (part_000:298-331)
BroadcastTx ==
    /\ echo.pc = "broadcast"
    /\ \E answer \in {"429", "error", "answered"}, retryAfter \in RetryAfterHeaders :
         LET e == [echo EXCEPT !.requests = @ + 1, !.sent = @ + 1]
         IN echo' = CASE answer = "429" -> RateLimitedRequest(e, retryAfter)
                      [] answer = "error" -> NextAttempt(e)
                      [] answer = "answered" -> EchoReturn(e, "echo")
    /\ UNCHANGED <<storeVars, stratVars, workerVars, bridgeVars, fnVars, schedVars>>
    /\ UNCHANGED <<debounce, poller, ledger>>

EchoStep ==
    \/ FetchUTXOs
    \/ CreateEchoTx
    \/ BroadcastTx

NextEcho ==
    \/ EmitEcho
    \/ FetchUTXOs
    \/ CreateEchoTx
    \/ BroadcastTx

\* the server answers every request and every timer expires
SpecEcho == InitEcho /\ [][NextEcho]_vars /\ WF_vars(EchoStep)

----------------------------------------------------------------------------
\* The polling loop of a reflex worker (substrate.js:621-661 for the
\* amplifier, genesis-jam.json:281-317 for the mirror).  Every block after
\* the one setupEventListener started at holds one SignalRegistered event.
\* A callback of setInterval runs up to its await of queryFilter, then up to
\* each await of the handler (the amplifier awaits handleSignal, the mirror
\* does not await processSignalEvent); the interval fires whether or not an
\* earlier callback has returned.
\* ---------------------------------------------------------------------
Blocks == 1..MaxBlocks

\* the handler is called with the events of blocks from..to
Deliver(delivered, from, to) ==
    [b \in Blocks |-> IF b >= from /\ b <= to THEN delivered[b] + 1 ELSE delivered[b]]

InitPoller ==
    /\ InitFn
    /\ sched = NoSched
    /\ debounce = null
    /\ echo = null
    /\ ledger = null
    /\ InitStore
    /\ InitStrategist
    /\ bsvEcho = FALSE
    /\ InitWorkers
    /\ InitBridge
    /\ \E worker \in {"amplifier", "mirror"} :
         poller = [worker |-> worker, head |-> 0, lastProcessedBlock |-> 0,
                   polls |-> <<>>, started |-> 0,
                   delivered |-> [b \in Blocks |-> 0]]

\* the chain grows by a block
NewBlock ==
    /\ poller.head < MaxBlocks
    /\ poller' = [poller EXCEPT !.head = @ + 1]
    /\ UNCHANGED <<storeVars, stratVars, workerVars, bridgeVars, fnVars, schedVars>>
    /\ UNCHANGED <<debounce, echo, ledger>>

\* the interval fires (substrate.js:627-632): the callback reads the block
\* number and, when it is ahead of lastProcessedBlock, calls queryFilter
PollStart ==
    /\ poller.started < MaxPolls
    /\ \E rpc \in {"ok", "throw"} :
         poller' = [poller EXCEPT
              !.started = @ + 1,
              !.polls = IF rpc = "ok" /\ poller.head > poller.lastProcessedBlock
                        THEN Append(@, [pc |-> "querying",
                                        from |-> poller.lastProcessedBlock + 1,
                                        to |-> poller.head, next |-> 0])
                        ELSE @]
    /\ UNCHANGED <<storeVars, stratVars, workerVars, bridgeVars, fnVars, schedVars>>
    /\ UNCHANGED <<debounce, echo, ledger>>

\* queryFilter settles (substrate.js:632-639, genesis-jam.json:292-299)
PollEvents ==
    /\ \E i \in DOMAIN poller.polls, rpc \in {"ok", "throw"} :
         LET poll == poller.polls[i] IN
         /\ poll.pc = "querying"
         /\ poller' =
              IF rpc = "throw"
              THEN [poller EXCEPT !.polls = RemoveAt(@, i)]
              ELSE IF poller.worker = "mirror"
              THEN [poller EXCEPT
                      !.delivered = Deliver(@, poll.from, poll.to),
                      !.lastProcessedBlock = poll.to,
                      !.polls = RemoveAt(@, i)]
              ELSE [poller EXCEPT
                      !.delivered = Deliver(@, poll.from, poll.from),
                      !.polls[i].pc = "handling",
                      !.polls[i].next = poll.from + 1]
    /\ UNCHANGED <<storeVars, stratVars, workerVars, bridgeVars, fnVars, schedVars>>
    /\ UNCHANGED <<debounce, echo, ledger>>

\* the amplifier's handleSignal returns (substrate.js:634-639): the loop
\* hands over the next event, or ends and lastProcessedBlock is set
PollHandled ==
    /\ \E i \in DOMAIN poller.polls :
         LET poll == poller.polls[i] IN
         /\ poll.pc = "handling"
         /\ poller' =
              IF poll.next <= poll.to
              THEN [poller EXCEPT
                      !.delivered = Deliver(@, poll.next, poll.next),
                      !.polls[i].next = @ + 1]
              ELSE [poller EXCEPT
                      !.lastProcessedBlock = poll.to,
                      !.polls = RemoveAt(@, i)]
    /\ UNCHANGED <<storeVars, stratVars, workerVars, bridgeVars, fnVars, schedVars>>
    /\ UNCHANGED <<debounce, echo, ledger>>

NextPoller ==
    \/ NewBlock
    \/ PollStart
    \/ PollEvents
    \/ PollHandled

SpecPoller == InitPoller /\ [][NextPoller]_vars

----------------------------------------------------------------------------
\* SignalVault (src/unnamed/part_002): the yield ledger of the vault contract.
\* A reverted call changes nothing, so each require is a guard of its action.

MaxVaultCalls == 6

YIELD_LOCK_DURATION == 86400

VaultOwner == "deployer"

VaultAddresses == {"alice", "bob", VaultOwner}

ZeroAddress == "0x0"

\* dmap.getSignal(hash): the owner registered for a signal hash, address(0)
\* for a hash that was never registered.
SignalHashes == {"h1", "h2", "h3"}

GetSignalOwner(hash) ==
    CASE hash = "h1" -> "alice"
      [] hash = "h2" -> "bob"
      [] OTHER -> ZeroAddress

YieldAmounts == {1, 2}

HashLists == {<<h>> : h \in SignalHashes} \cup (SignalHashes \X SignalHashes)

DstChainIds == {101}

TimeSteps == {1, YIELD_LOCK_DURATION}

\* logged and withdrawn are the sums of the amounts of the YieldLogged events
\* and of the amounts paid out, per account.
InitVault ==
    /\ InitFn
    /\ sched = NoSched
    /\ debounce = null
    /\ echo = null
    /\ poller = null
    /\ InitStore
    /\ InitStrategist
    /\ bsvEcho = FALSE
    /\ InitWorkers
    /\ InitBridge
    /\ ledger = [harvestedYield |-> [a \in VaultAddresses |-> 0],
                 yieldLocks |-> [a \in VaultAddresses |->
                                   [amount |-> 0, releaseTime |-> 0]],
                 authorizedTrappers |-> {},
                 remoteAddress |-> {},
                 timestamp |-> 1,
                 logged |-> [a \in VaultAddresses |-> 0],
                 withdrawn |-> [a \in VaultAddresses |-> 0],
                 calls |-> 0]

VaultUnchanged ==
    /\ UNCHANGED <<storeVars, stratVars, workerVars, bridgeVars, fnVars, schedVars>>
    /\ UNCHANGED <<debounce, echo, poller>>

SetAuthorizedTrapper ==
    /\ ledger.calls < MaxVaultCalls
    /\ \E sender \in VaultAddresses, trapper \in VaultAddresses, authorized \in BOOLEAN :
         /\ sender = VaultOwner
         /\ ledger' = [ledger EXCEPT
                         !.authorizedTrappers =
                             IF authorized THEN @ \cup {trapper} ELSE @ \ {trapper},
                         !.calls = @ + 1]
    /\ VaultUnchanged

SetRemote ==
    /\ ledger.calls < MaxVaultCalls
    /\ \E sender \in VaultAddresses, dstChainId \in DstChainIds :
         /\ sender = VaultOwner
         /\ ledger' = [ledger EXCEPT !.remoteAddress = @ \cup {dstChainId},
                                     !.calls = @ + 1]
    /\ VaultUnchanged

LogYield ==
    /\ ledger.calls < MaxVaultCalls
    /\ \E sender \in VaultAddresses, signalHash \in SignalHashes,
          yieldAmount \in YieldAmounts :
         LET signalOwner == GetSignalOwner(signalHash) IN
         /\ sender \in ledger.authorizedTrappers
         /\ signalOwner # ZeroAddress
         /\ ledger' = [ledger EXCEPT
                         !.harvestedYield[signalOwner] = @ + yieldAmount,
                         !.logged[signalOwner] = @ + yieldAmount,
                         !.calls = @ + 1]
    /\ VaultUnchanged

\* The loop adds harvestedYield[msg.sender] once for every hash of the list.
TotalHarvest(l, sender, hashes) ==
    Len(hashes) * l.harvestedYield[sender]

HarvestYield ==
    /\ ledger.calls < MaxVaultCalls
    /\ \E sender \in VaultAddresses, hashes \in HashLists :
         LET totalHarvest == TotalHarvest(ledger, sender, hashes) IN
         /\ \A i \in DOMAIN hashes : GetSignalOwner(hashes[i]) = sender
         /\ totalHarvest > 0
         /\ ledger' = [ledger EXCEPT
                         !.yieldLocks[sender] =
                             [amount |-> @.amount + totalHarvest,
                              releaseTime |-> ledger.timestamp + YIELD_LOCK_DURATION],
                         !.calls = @ + 1]
    /\ VaultUnchanged

WithdrawYield ==
    /\ ledger.calls < MaxVaultCalls
    /\ \E sender \in VaultAddresses, amount \in YieldAmounts :
         /\ ledger.harvestedYield[sender] >= amount
         /\ ledger.yieldLocks[sender].releaseTime < ledger.timestamp
         /\ ledger' = [ledger EXCEPT
                         !.harvestedYield[sender] = @ - amount,
                         !.withdrawn[sender] = @ + amount,
                         !.calls = @ + 1]
    /\ VaultUnchanged

ReleaseYield ==
    /\ ledger.calls < MaxVaultCalls
    /\ \E sender \in VaultAddresses :
         LET lock == ledger.yieldLocks[sender] IN
         /\ lock.amount > 0
         /\ lock.releaseTime < ledger.timestamp
         /\ ledger' = [ledger EXCEPT
                         !.yieldLocks[sender] = [amount |-> 0, releaseTime |-> 0],
                         !.harvestedYield[sender] = @ + lock.amount,
                         !.calls = @ + 1]
    /\ VaultUnchanged

WithdrawYieldToChain ==
    /\ ledger.calls < MaxVaultCalls
    /\ \E sender \in VaultAddresses, dstChainId \in DstChainIds,
          amount \in YieldAmounts :
         /\ dstChainId \in ledger.remoteAddress
         /\ ledger.harvestedYield[sender] >= amount
         /\ ledger' = [ledger EXCEPT
                         !.harvestedYield[sender] = @ - amount,
                         !.withdrawn[sender] = @ + amount,
                         !.calls = @ + 1]
    /\ VaultUnchanged

\* block.timestamp of the next block.
MineBlock ==
    /\ ledger.calls < MaxVaultCalls
    /\ \E step \in TimeSteps :
         ledger' = [ledger EXCEPT !.timestamp = @ + step, !.calls = @ + 1]
    /\ VaultUnchanged

NextVault ==
    \/ SetAuthorizedTrapper
    \/ SetRemote
    \/ LogYield
    \/ HarvestYield
    \/ WithdrawYield
    \/ ReleaseYield
    \/ WithdrawYieldToChain
    \/ MineBlock

SpecVault == InitVault /\ [][NextVault]_vars

----------------------------------------------------------------------------
\* Properties

\* a step that is one attempt of the analysis
IsAnalysisStep == metrics'.totalAnalyses = metrics.totalAnalyses + 1

\* a step that is an invocation of detectAndEmit meeting the flag set
IsBusyInvocation == calls' = calls + 1 /\ isEmitting

\* the stored record of a hash has passed the audit
Audited(h) == Retrieve(store, h) # null /\ Retrieve(store, h).meta.audit_pass

\* C1: a reflex worker (amplifier or mirror) has sent a state-changing
\* transaction for a signal hash only if the store holds a record for that
\* hash whose meta.audit_pass is true; for a hash whose record is missing or
\* unaudited no transaction is ever sent.
C1_WorkersAuditGate ==
    \A h \in EventHashes : (ampTxs[h] > 0 \/ mirTxs[h] > 0) => Audited(h)

\* one worker turned an untrusted signal away and the other has sent
\* transactions for an audited one
C1_Witness ==
    \/ /\ ampLast = "untrusted"
       /\ \E h \in EventHashes : mirTxs[h] > 0
    \/ /\ mirLast = "untrusted"
       /\ \E h \in EventHashes : ampTxs[h] > 0

\* C2: an attempt in which the oracle answers audit_pass = false writes
\* nothing to the store, calls neither emitSignal nor emitRecursiveSignal and
\* ends the cycle; and every record in the store, and the record of every
\* vault call, has meta.audit_pass = true.
C2_StrategistAuditGate ==
    /\ [](\A h \in DOMAIN store : store[h].meta.audit_pass)
    /\ [](lastVaultCall # null => Audited(lastVaultCall.hash))
    /\ [][ (IsAnalysisStep /\ oracle'.threw = "no" /\ ~oracle'.audit_pass)
            => /\ store' = store
               /\ vaultCalls' = vaultCalls
               /\ lastVaultCall' = lastVaultCall
               /\ pc' = "idle" ]_vars

\* a cycle ended on a failed audit after an earlier cycle had stored and
\* submitted a record
C2_Witness ==
    /\ lastReturn = "audit_fail"
    /\ oracle # null
    /\ oracle.threw = "no"
    /\ ~oracle.audit_pass
    /\ vaultCalls >= 1
    /\ DOMAIN store # {}

\* C3: for every signal hash, each worker executes at most one adapter action
\* (the amplifier's swap, the mirror's swap or deposit), however often the
\* SignalRegistered event of that hash is delivered.
C3_AtMostOneAction ==
    \A h \in EventHashes : ampSwaps[h] <= 1 /\ mirActs[h] <= 1

\* C4: an invocation of detectAndEmit that meets isEmitting set changes
\* neither lastHash, lastEmissionTime, the missed-emission counter, the
\* metrics nor the store, submits nothing, leaves the flag set and leaves the
\* cycle in flight where it is.
C4_BusyGuard ==
    [][ IsBusyInvocation
          => UNCHANGED <<lastHash, lastEmissionTime, missedEmissions, metrics,
                         storeVars, vaultCalls, lastVaultCall, isEmitting, pc,
                         retryCount, cur>> ]_vars

\* an invocation returned at the guard while a cycle was in flight
C4_Witness ==
    /\ lastReturn = "busy"
    /\ pc \in {"analyzing", "submitting", "anchoring"}
    /\ isEmitting

\* C5: once an invocation of detectAndEmit has returned, whatever its
\* outcome, isEmitting is false.
C5_ReturnsToIdle ==
    pc = "idle" => ~isEmitting

\* C6: the records one Strategist process submitted successfully form a
\* chain: the first has cascadeDepth 1 and vectorClock.eth 1, every later one
\* has both one greater than its predecessor's, and its meta.parentJam is the
\* predecessor's hash.
C6_DepthMonotone ==
    \A i \in DOMAIN submitted :
        LET r == store[submitted[i]] IN
        IF i = 1
        THEN /\ r.cascadeDepth = 1
             /\ r.recursiveTopology.vectorClock.eth = 1
        ELSE LET prev == store[submitted[i - 1]] IN
             /\ r.cascadeDepth = prev.cascadeDepth + 1
             /\ r.recursiveTopology.vectorClock.eth
                    = prev.recursiveTopology.vectorClock.eth + 1
             /\ r.meta.parentJam = submitted[i - 1]

\* three cycles in a row were submitted
C6_Witness ==
    /\ Len(submitted) >= 3
    /\ store[submitted[3]].cascadeDepth = 3

\* C7: whenever the store's getLatest() returns a record R when a record is
\* built, the built record has meta.parentJam = R's hash, cascadeDepth and
\* vectorClock.eth one greater than R's.
C7_ExtendsLatest ==
    (built # null /\ built.latest # null)
        => /\ built.jam.meta.parentJam = built.latest.hash
           /\ built.jam.cascadeDepth = built.latest.data.cascadeDepth + 1
           /\ built.jam.recursiveTopology.vectorClock.eth
                  = built.latest.data.recursiveTopology.vectorClock.eth + 1

\* C8: a record built over an empty store has cascadeDepth 1 and
\* meta.parentJam null; and a vault call is emitSignal exactly when the
\* record's parentJam is null, emitRecursiveSignal exactly when it is not,
\* and then its second argument is the record's parentJam.
C8_EntryPoint ==
    /\ (built # null /\ built.latest = null)
          => (built.jam.cascadeDepth = 1 /\ built.jam.meta.parentJam = null)
    /\ lastVaultCall # null
          => LET parentJam == Retrieve(store, lastVaultCall.hash).meta.parentJam IN
             /\ lastVaultCall.fn = "emitSignal" <=> parentJam = null
             /\ lastVaultCall.fn = "emitRecursiveSignal" <=> parentJam # null
             /\ lastVaultCall.parent = parentJam

\* a genesis record went out through emitSignal and a later record through
\* emitRecursiveSignal
C8_Witness ==
    /\ Len(submitted) >= 1
    /\ lastVaultCall # null
    /\ lastVaultCall.fn = "emitRecursiveSignal"
    /\ lastVaultCall.parent = submitted[1]

\* the handlers of the mirror that are past the entry checks
MirInFlight == {i \in DOMAIN mirHandlers : mirHandlers[i].pc \in {"wait", "act"}}

\* C9: in each worker process at most one handler is past its entry check
\* (waiting, verifying or transacting) at any time.
C9_OneInFlight ==
    /\ Cardinality(MirInFlight) <= 1
    /\ ampPc # "idle" => isAmplifying

\* C10: when all invocations of updateGist so far started less than
\* MIN_UPDATE_INTERVAL after the first, at most one PATCH has been sent, and
\* exactly one once the bridge is idle again (an invocation that found no
\* valid latest-jam.json aside).
C10_OnePush ==
    (gistCalls >= 1 /\ gistSpread /\ ~gistSkipped)
        => /\ patches <= 1
           /\ gistPc = "idle" => patches = 1

\* C11: a write under a hash that already holds a record never changes
\* that record: what the store holds under every hash is what was first
\* stored under it.
C11_WriteOnce ==
    \A h \in DOMAIN store : store[h] = firstStored[h]

C13_LatestIsLastWrite ==
    /\ (DOMAIN store = {}) <=> (lastWritten = null)
    /\ GetLatest(store, mtime) =
          IF lastWritten = null THEN null
          ELSE [hash |-> lastWritten, data |-> store[lastWritten]]

\* the record written last carries an older timestamp than another record
C13_Witness ==
    /\ lastWritten # null
    /\ GetLatest(store, mtime) # null
    /\ \E h \in DOMAIN store :
          store[h].meta.timestamp > GetLatest(store, mtime).data.meta.timestamp

\* C14: the audit counters never add up to more than the analyses counted.
C14_MetricsConsistent ==
    metrics.auditPasses + metrics.auditFails <= metrics.totalAnalyses

\* C15: when the cross-chain anchoring that follows a successful submission
\* fails, the cycle ends with the metrics (emissionFailures among them),
\* lastHash and lastEmissionTime exactly as the submission left them.
C15_AnchorFailureSwallowed ==
    [][ (pc = "anchoring" /\ pc' = "idle" /\ restarts' = restarts)
          => UNCHANGED <<metrics, lastHash, lastEmissionTime>> ]_vars


\* C16: selectOptimalPattern returns a pattern whose score (success rate,
\* 0.5 when unused, minus 0.3 while cooling, plus 0.2 below 5 attempts) is
\* maximal; no pattern declared before it has the same score; on
\* statistics that are all zero it returns CLASSIC_ARBITRAGE.
C16_SelectsFirstBest ==
    (fnOut # null /\ "patternSuccess" \in DOMAIN fnIn) =>
        LET score(p) == PatternScore(fnIn.patternSuccess[p], fnIn.cooledBefore)
            chosen == CHOOSE i \in DOMAIN PatternOrder : PatternOrder[i] = fnOut.pattern
        IN  /\ fnOut.pattern \in PatternNames
            /\ \A p \in PatternNames : score(p) <= score(fnOut.pattern)
            /\ \A i \in 1..(chosen - 1) : score(PatternOrder[i]) < score(fnOut.pattern)
            /\ fnIn.patternSuccess = ZeroMetrics.patternSuccess
                    => fnOut.pattern = "CLASSIC_ARBITRAGE"

\* a pattern declared after the first one is returned because every earlier
\* one scores lower, while a later one scores the same
C16_Witness ==
    /\ fnOut # null
    /\ "patternSuccess" \in DOMAIN fnIn
    /\ fnOut.pattern = "STABLE_ROTATION"
    /\ PatternScore(fnIn.patternSuccess["YIELD_CAPTURE"], fnIn.cooledBefore)
         = PatternScore(fnIn.patternSuccess["STABLE_ROTATION"], fnIn.cooledBefore)
    /\ fnIn.patternSuccess["STABLE_ROTATION"].attempts = 5

\* C17: when analyzeContract called the decompiler API and the call failed,
\* it returns a result marked as heuristic analysis, with the default
\* hooks, whose audit_pass is true exactly when the local heuristics pass:
\* at least 100 bytes of code, no SELFDESTRUCT, not CREATE2 together with
\* DELEGATECALL.
C17_AnalyzerFailureRecovered ==
    (fnOut # null /\ "reply" \in DOMAIN fnIn
        /\ fnOut.decompilerCalled /\ fnIn.reply.kind # "ok") =>
        /\ ~fnIn.allowListed
        /\ fnIn.code.fetch = "code"
        /\ fnOut.returned.source_estimate = "Phi-aligned heuristic analysis"
        /\ fnOut.returned.bait_hooks = DefaultHooks
        /\ fnOut.returned.audit_pass =
              ( /\ fnIn.code.size >= 100
                /\ ~fnIn.code.has_selfdestruct
                /\ ~(fnIn.code.has_create2 /\ fnIn.code.has_delegatecall) )

\* the decompiler API answers with an error status and the contract passes
C17_Witness ==
    /\ fnOut # null
    /\ "reply" \in DOMAIN fnIn
    /\ fnOut.decompilerCalled
    /\ fnIn.reply.kind = "not_ok"
    /\ fnIn.code.has_create2
    /\ fnOut.returned.audit_pass

\* C18: for an allow-listed address analyzeContract returns audit_pass=true
\* with the default hooks and does not call the decompiler API, whatever
\* the fetch of the bytecode did.
C18_AllowListShortCircuit ==
    (fnOut # null /\ "allowListed" \in DOMAIN fnIn /\ fnIn.allowListed) =>
        /\ fnOut.returned.audit_pass
        /\ fnOut.returned.bait_hooks = DefaultHooks
        /\ ~fnOut.decompilerCalled

\* C19: two cycles started from the same state (lastEmissionTime, missed
\* count) at the same clock value take the same emit-or-skip decision.
C19_SameDecision ==
    (fnOut # null /\ "currentMinutes" \in DOMAIN fnIn) => fnOut.first = fnOut.second

\* C20: for every signal, the bait swaps confirmed on-chain and the capture
\* bundles included are as many: no handler run confirms its bait and ends
\* without its capture.
C20_BaitAndCapture ==
    \A h \in EventHashes : ampCaptures[h] = ampSwaps[h]

\* C21: once an invocation of handleSignal has returned, whatever its exit
\* path, the amplifier's busy flag is false.
C21_FlagReleased ==
    ampPc = "idle" => ~isAmplifying

\* C22: a hash joins mirroredSignals only in the step in which the
\* transaction of its MIRROR action is confirmed; a handler that ends any
\* other way leaves mirroredSignals as it was.
C22_MarkedOnConfirmation ==
    [][ mirroredSignals' # mirroredSignals =>
          \E h \in EventHashes :
              /\ mirroredSignals' = mirroredSignals \cup {h}
              /\ mirActs'[h] = mirActs[h] + 1
              /\ mirLast' = "mirrored" ]_vars

\* a hash is marked after an earlier handler for it had its transaction
\* submitted and not confirmed
C22_Witness ==
    \E h \in EventHashes :
        h \in mirroredSignals /\ mirActs[h] = 1 /\ mirTxs[h] >= 4

\* C23: a step of the handler that confirms the bait swap and ends the
\* invocation short of the transfer to the mirror wallet is one in which an
\* error occurred.
C23_HandOff ==
    [][ (ampPc = "swap" /\ ampSwaps' # ampSwaps /\ ampPc' = "idle")
          => ampLast' = "failed" ]_vars

\* C24: one invocation of the handler sends at most one bait swap
\* transaction.
C24_OneBaitPerSignal ==
    ampRun.baits <= 1

\* C25: a handler that read a gas price above MAX_GAS_PRICE sends no
\* transaction.
C25_GasCeiling ==
    [][ ampRun.gasTooHigh => (ampTxs' = ampTxs /\ ampSwaps' = ampSwaps) ]_vars

\* C26: a handler of either worker gets past its sender filter, to where
\* transactions are sent, only for an event whose registering transaction
\* was sent by the own signer, compared without regard to case; and the
\* amplifier that turned a foreign event away has released its busy flag.
C26_SenderFilter ==
    /\ ampPc \in {"verify", "swap", "post"} =>
            ToLowerCase(ampRun.from) = ToLowerCase(YOUR_EMITTER)
    /\ \A i \in DOMAIN mirHandlers :
            mirHandlers[i].pc \in {"wait", "act"} =>
                ToLowerCase(mirHandlers[i].from) = ToLowerCase(YOUR_EMITTER)
    /\ (ampPc = "idle" /\ ampLast = "not_own") => ~isAmplifying

\* the amplifier turned a stranger's event away and is free again, while a
\* mirror handler is at its action for an event of the own signer, whose
\* address the node reported in another case than the configuration has it
C26_Witness ==
    /\ ampPc = "idle"
    /\ ampLast = "not_own"
    /\ ~isAmplifying
    /\ \E i \in DOMAIN mirHandlers :
            mirHandlers[i].pc = "act" /\ mirHandlers[i].from # YOUR_EMITTER

\* the success counts of the patterns
PatternSuccesses(m) == [p \in PatternNames |-> m.patternSuccess[p].successes]

\* C27: a cycle whose submission fails is not over: the Strategist tries it
\* again (the loop of detectAndEmit is at its first attempt whenever a
\* submission is made).
C27_SubmitRetried ==
    [][ (pc = "submitting" /\ restarts' = restarts /\ submitted' = submitted)
          => pc' # "idle" ]_vars

\* C28: a cycle whose emit call or wait for inclusion fails leaves
\* lastHash, lastEmissionTime, the missed counter and the patterns'
\* successes as they were; these change (a skipped cycle counting itself as
\* missed apart) only in the step in which a submission is confirmed, where
\* lastHash becomes the hash of the cycle's record and the missed counter 0.
C28_AdvancedOnConfirmation ==
    [][ restarts' = restarts =>
          /\ (pc = "submitting" /\ submitted' = submitted) =>
                 /\ UNCHANGED <<lastHash, lastEmissionTime, missedEmissions>>
                 /\ PatternSuccesses(metrics') = PatternSuccesses(metrics)
          /\ ( \/ lastHash' # lastHash
               \/ lastEmissionTime' # lastEmissionTime
               \/ missedEmissions' < missedEmissions
               \/ PatternSuccesses(metrics') # PatternSuccesses(metrics) ) =>
                 /\ pc = "submitting"
                 /\ submitted' = Append(submitted, cur.hash)
                 /\ lastHash' = cur.hash
                 /\ missedEmissions' = 0 ]_vars

\* a submission failed after cycles were skipped and after an earlier
\* submission was confirmed: the state is the one the confirmed one left
C28_Witness ==
    /\ lastReturn = "submit_fail"
    /\ vaultCalls > Len(submitted)
    /\ Len(submitted) = 1
    /\ lastHash = submitted[1]
    /\ missedEmissions > 0

\* the time until the next alignment window, in minutes: the least number of
\* minutes, one or more, after which the minute of the day is a window's
TimeUntilNextWindow(currentMinutes) ==
    Least({ d \in 1..DAY_MINUTES :
              \E i \in DOMAIN CONSENSUS_TIMES :
                  (currentMinutes + d) % DAY_MINUTES
                      = CONSENSUS_TIMES[i].hour * 60 + CONSENSUS_TIMES[i].minute })

\* one cycle of the chain is pending or under way, no more and no less
OneCycleScheduled == sched.timers + sched.running = 1

\* C29 (as stated): at every moment exactly one scheduled cycle is pending or
\* under way, and the delay of the timer last set is
\* min(BASE_INTERVAL, time until the next alignment window + jitter).
C29_DelayIsMinOfBaseAndWindow ==
    /\ OneCycleScheduled
    /\ sched.interval = Min(sched.base, TimeUntilNextWindow(sched.now) * MINUTE + sched.jitter)

\* C29 (amended): at every moment exactly one scheduled cycle is pending or
\* under way (after each scheduled detectAndEmit settles exactly one timer is
\* set), and the delay of the timer last set is the least of BASE_INTERVAL,
\* 30 minutes and the time until the next alignment window plus the jitter;
\* it is never greater than BASE_INTERVAL.
C29_OneNextCycleCapped ==
    /\ OneCycleScheduled
    /\ sched.interval = Min(sched.base,
                            Min(MAX_OPTIMAL_INTERVAL,
                                TimeUntilNextWindow(sched.now) * MINUTE + sched.jitter))
    /\ sched.interval <= sched.base

\* after a scheduled cycle settled, with a base interval of one hour and the
\* next window hours away, the next timer is set to 30 minutes
C29_Witness ==
    /\ sched.cycles >= 1
    /\ sched.timers = 1
    /\ sched.running = 0
    /\ sched.base > MAX_OPTIMAL_INTERVAL
    /\ sched.interval = MAX_OPTIMAL_INTERVAL

\* C30: a cycle on a micro-tick minute (minute mod 15 in {3, 5, 8, 13})
\* decides to emit; a cycle not on a micro-tick decides to emit whenever at
\* least the adjusted interval has elapsed since the last emission.
C30_TimingPolicy ==
    (fnOut # null /\ "currentMinutes" \in DOMAIN fnIn) =>
        LET isSubInterval == (fnIn.currentMinutes % 60) % 15 \in SUBINTERVALS
            elapsed == fnIn.currentTime - fnIn.lastEmissionTime
            adjustedInterval == AdjustedInterval(GetConsensusMultiplier(fnIn.currentMinutes))
        IN  /\ isSubInterval => fnOut.first = "emit"
            /\ (~isSubInterval /\ elapsed >= adjustedInterval) => fnOut.first = "emit"

\* C31: the resonance of a record the Strategist builds lies in [0, 0.99],
\* whatever the pattern's base resonance and statistics, the missed count,
\* the pressure magnitude and the alignment multiplier.
C31_ResonanceBounded ==
    (fnOut # null /\ "baseResonance" \in DOMAIN fnIn) =>
        (fnOut.resonance >= 0 /\ fnOut.resonance <= 990)

\* C32: for every distance to the nearest alignment window the emission
\* probability 0.3 + 0.7 * (multiplier - 1) / 1.618 is at least 0.3 and at
\* most 1.0.
C32_ProbabilityRange ==
    (fnOut # null /\ "currentMinutes" \in DOMAIN fnIn) =>
        (fnOut.probability >= 300 /\ fnOut.probability <= 1000)

\* C33: once a burst of changes is over (more than DEBOUNCE_DELAY has passed
\* since the last change of latest-jam.json) updateGist has been triggered
\* for it, DEBOUNCE_DELAY after that last change.
C33_BurstPushedOnce ==
    (debounce # null /\ debounce.changes = 1
       /\ debounce.now > debounce.lastChange + DEBOUNCE_DELAY)
        => (debounce.triggered = 1
            /\ debounce.lastTrigger = debounce.lastChange + DEBOUNCE_DELAY)

\* C34: once the document store has answered a push with a rate-limit
\* response, no PATCH is sent until MIN_UPDATE_INTERVAL has elapsed since
\* that response.  The response is the last answer recorded in
\* lastUpdateTime (part_001:103; a success is recorded there too, and is
\* followed by no request of the same invocation).
C34_BackOffAfterRateLimit ==
    [][ (patches' = patches + 1 /\ lastUpdateTime > 0)
          => ~RateLimited(gNow, lastUpdateTime) ]_vars

\* a call of fetchUTXOs or broadcastTx has made at most 6 requests, 5 of
\* them retries, and emitEcho at most 3 attempts
EchoBounded ==
    /\ echo.requests <= MAX_429_RETRIES + 1
    /\ echo.retryCount <= MAX_429_RETRIES
    /\ echo.i <= ECHO_RETRIES
    /\ echo.pc # "idle" => echo.i < ECHO_RETRIES

\* the wait before a retry is the server's Retry-After seconds, or without
\* the header the least of 30 s and 5 s * 2^retryCount
EchoWaited ==
    echo.waited # null =>
        echo.waited.delay =
            IF echo.waited.retryAfter # null
                THEN 1000 * ParseInt(echo.waited.retryAfter)
                ELSE IF 5000 * Pow2(echo.waited.retryCount) > 30000
                     THEN 30000
                     ELSE 5000 * Pow2(echo.waited.retryCount)

\* C35: fetchUTXOs and broadcastTx retry on 429 at most 5 times (6 requests
\* per call), waiting Retry-After seconds or min(30 s, 5 s * 2^retryCount);
\* emitEcho makes at most 3 attempts, and every emitEcho that was called
\* returns, whatever the server answers.
C35_BoundedBackoff ==
    /\ [](echo # null => (EchoBounded /\ EchoWaited))
    /\ ((echo # null /\ echo.pc # "idle") ~> (echo # null /\ echo.pc = "idle"))

\* an emitEcho that met 429 on every request has returned null after three
\* attempts of six requests
C35_Witness ==
    /\ echo # null
    /\ echo.pc = "idle"
    /\ echo.result = "null"
    /\ echo.i = ECHO_RETRIES
    /\ echo.sent = ECHO_RETRIES * (MAX_429_RETRIES + 1)
    /\ echo.waited # null
    /\ echo.waited.retryCount = MAX_429_RETRIES - 1

\* C36: for an address that is not allow-listed and has bytecode, a fresh
\* analysis returns audit_pass = (riskScore < 0.8 and bytecodeSize >= 100),
\* with riskScore = 0.618 [CREATE2] + 0.382 [DELEGATECALL] + 1 [SELFDESTRUCT],
\* whether or not a decompiler is configured.
C36_HeuristicAuditRule ==
    (fnOut # null /\ "reply" \in DOMAIN fnIn /\ ~fnIn.allowListed
       /\ fnIn.cache # "valid" /\ fnIn.code.fetch = "code") =>
        LET riskScore == (IF fnIn.code.has_create2 THEN 618 ELSE 0)
                         + (IF fnIn.code.has_delegatecall THEN 382 ELSE 0)
                         + (IF fnIn.code.has_selfdestruct THEN 1000 ELSE 0)
        IN fnOut.returned.audit_pass = (riskScore < 800 /\ fnIn.code.size >= 100)

\* C37: in a worker's polling loop lastProcessedBlock never decreases and
\* the event of a block is handed to the handler at most once, also when a
\* callback of the interval fires while an earlier one has not returned.
C37_DeliveredOnce ==
    [][ /\ poller'.lastProcessedBlock >= poller.lastProcessedBlock
        /\ \A b \in Blocks : poller'.delivered[b] <= 1 ]_vars

\* C38: whenever the Strategist calls emitSignal or emitRecursiveSignal for
\* a hash, the Signal Store already holds the record of the cycle under that
\* hash, so a worker that retrieves the hash of the Strategist's event finds
\* it.
C38_StoreBeforeSubmit ==
    [][ vaultCalls' = vaultCalls + 1 =>
          /\ Retrieve(store, lastVaultCall'.hash) # null
          /\ Retrieve(store, lastVaultCall'.hash) = cur.jam ]_vars

\* a recursive signal went out whose submission then failed: its record is
\* in the store nevertheless
C38_Witness ==
    /\ lastVaultCall # null
    /\ lastVaultCall.fn = "emitRecursiveSignal"
    /\ lastReturn = "submit_fail"
    /\ Retrieve(store, lastVaultCall.hash) # null

\* the attempts of the patterns
PatternAttempts(m) == [p \in PatternNames |-> m.patternSuccess[p].attempts]

\* C39: for every pattern 0 <= successes <= attempts in every state of the
\* Strategist, and while the process runs neither count decreases.
C39_PatternStatsConsistent ==
    /\ [](\A p \in PatternNames :
            /\ 0 <= PatternSuccesses(metrics)[p]
            /\ PatternSuccesses(metrics)[p] <= PatternAttempts(metrics)[p])
    /\ [][ restarts' = restarts =>
             \A p \in PatternNames :
                 /\ PatternAttempts(metrics')[p] >= PatternAttempts(metrics)[p]
                 /\ PatternSuccesses(metrics')[p] >= PatternSuccesses(metrics)[p] ]_vars

\* a pattern was attempted twice and succeeded once
C39_Witness ==
    \E p \in PatternNames :
        /\ metrics.patternSuccess[p].attempts = 2
        /\ metrics.patternSuccess[p].successes = 1

\* C40: for every account, the total amount withdrawn plus the remaining
\* harvestedYield never exceeds the total yieldAmount logged for that account
\* by authorized trappers.
C40_YieldConservation ==
    ledger # null =>
        \A a \in VaultAddresses :
            ledger.withdrawn[a] + ledger.harvestedYield[a] <= ledger.logged[a]

====
